---------------------------- MODULE Spec2Model ----------------------------
(***************************************************************************)
(* A model of motel (csmith49/motel): the motif -> SQL query compiler      *)
(* (motifs.py), the weighted neighbourhood traversal (orm.py), the sparse  *)
(* image (img.py) and the ensembles built on it (ensembles.py).            *)
(*                                                                         *)
(* The specifications share the module's variables; each one moves only   *)
(* the variables of its own component and leaves the others at rest:       *)
(*   SpecQuery        Motif.__init__, Motif.query, Motif.evaluate          *)
(*   SpecNeighborhood Vertex.neighbors, Edge.between, neighborhood         *)
(*   SpecTraversal    the same, the generator calls taken one at a time    *)
(*   SpecEnsemble     SparseImage and Disjunction / MajorityVote /         *)
(*                    WeightedVote                                         *)
(*   SpecClassifier   the ensemble as stats.py queries it                  *)
(*   SpecStatistics   stats.statistics                                     *)
(*   SpecLoop         the active-learning loop evaluate_weighted_vote      *)
(*   SpecImageFile    SparseImage.dump / load and the JSON forms           *)
(*   SpecCommand      a command over the documents of a data set, one      *)
(*                    Connection per document                              *)
(***************************************************************************)
EXTENDS Integers, Sequences, FiniteSets, TLC

VARIABLES
    \* ---- motif compiler (motifs.py) ----
    store,       \* the connected document: Vertex, Attribute and Edge tables
    motif,       \* the JSON handed to Motif.__init__
    q_pc,        \* "input" | "compiled" | "evaluated"
    q_query,     \* the query Motif.query built ("none" before)
    q_result,    \* the ids db.select returned
    q_err,       \* the exception raised so far ("none" when none)
    \* ---- neighbourhood extractor (orm.py, settings.py) ----
    graph,       \* the Edge table of the connected document
    weights,     \* settings.EDGE_WEIGHTS and settings.EDGE_WEIGHT_DEFAULT
    n_origin,    \* the origin handed to neighborhood
    n_distance,  \* the distance handed to neighborhood
    n_pc,        \* "input" | "running" | "done"
    n_vertices,  \* the vertex set neighborhood returned
    n_edges,     \* the edge set neighborhood returned
    n_stack,     \* the running calls of Vertex.neighbors, innermost last
    n_err,       \* the exception neighborhood raised ("none" when none)
    \* ---- sparse image and ensemble (img.py, ensembles.py) ----
    img_motifs,  \* SparseImage.motifs: the list of registered Motif objects
    img_rows,    \* SparseImage.rows: Motif object -> list of Points
    ens,         \* the ensemble built from the image (NoEnsemble before)
    e_call,      \* the last operation called, its argument and what it returned
    e_err,       \* the exception the last operation raised ("none" when none)
    \* ---- active-learning loop (cli.py, stats.py) ----
    l_impl,      \* which evaluate_weighted_vote runs: "cli" | "stats"
    l_n,         \* active_learning_steps
    l_truth,     \* ground_truth: the positive points of the test split
    l_step,      \* step, the loop variable
    l_pc,        \* "idle" | "evaluate" | "split" | "done"
    l_learnable, \* learnable
    l_learned,   \* learned
    l_trace,     \* what the loop did so far: evaluations and updates, in order
    l_err,       \* the exception that ended the loop ("none" when none)
    \* ---- statistics (stats.py) ----
    s_prediction, \* prediction
    s_truth,      \* ground_truth
    s_beta,       \* beta
    s_pc,         \* "input" | "done"
    s_result,     \* what statistics returned or raised
    \* ---- a command over a list of documents (cli.py, orm.py Connection) ----
    c_cmd,        \* "evaluate_motifs" | "extract_neighborhoods"
    c_docs,       \* the documents of the data set, in order
    c_i,          \* the position of the document being processed (0 before)
    c_pc,         \* "idle" | "loop" | "mkdir" | "bind" | "generate_mapping" |
                  \* "work" | "exit" | "dump" | "done" | "failed"
    c_bound,      \* positions of the documents whose Database is bound and not
                  \* disconnected
    c_raised,     \* the exception raised and the place that raised it
    c_evaluated,  \* positions of the documents whose work ended without exception
    c_written,    \* whether image.dump(output) was reached
    c_out         \* the lines of the file extract_neighborhoods writes to

qvars == <<store, motif, q_pc, q_query, q_result, q_err>>

nvars == <<graph, weights, n_origin, n_distance, n_pc, n_vertices, n_edges, n_stack, n_err>>

evars == <<img_motifs, img_rows, ens, e_call, e_err>>

lvars == <<l_impl, l_n, l_truth, l_step, l_pc, l_learnable, l_learned, l_trace, l_err>>

svars == <<s_prediction, s_truth, s_beta, s_pc, s_result>>

cvars == <<c_cmd, c_docs, c_i, c_pc, c_bound, c_raised, c_evaluated, c_written, c_out>>

vars == <<qvars, nvars, evars, lvars, svars, cvars>>

\* What the operations of one component leave alone.
NotQuery == <<nvars, evars, lvars, svars, cvars>>

NotNeighborhood == <<qvars, evars, lvars, svars, cvars>>

NotEnsemble == <<qvars, nvars, lvars, svars, cvars>>

NotStatistics == <<qvars, nvars, evars, lvars, cvars>>

\* The loop and the commands also move the image and the ensemble.
NotLoop == <<qvars, nvars, svars, cvars>>

NotCommand == <<qvars, nvars, lvars, svars>>

----------------------------------------------------------------------------
(* Generic helpers *)

Range(s) == {s[i] : i \in 1..Len(s)}

\* The first position of x in sequence s (0 when absent): list.index.
FirstIdx(s, x) == IF x \in Range(s) THEN CHOOSE i \in 1..Len(s) : s[i] = x /\ \A j \in 1..(i-1) : s[j] # x ELSE 0

\* The subsequence of s at the positions satisfying keep, in order.
RECURSIVE Pick(_, _, _)
Pick(s, keep, i) ==
    IF i > Len(s) THEN <<>>
    ELSE IF i \in keep THEN <<s[i]>> \o Pick(s, keep, i + 1)
    ELSE Pick(s, keep, i + 1)

----------------------------------------------------------------------------
(* A component no specification moves stays in this state. *)

QueryAtRest ==
    /\ store = [vertices |-> {}, attributes |-> {}, edges |-> {}]
    /\ motif = [selector |-> 1, structure |-> [vertices |-> <<>>, edges |-> <<>>]]
    /\ q_pc = "input"
    /\ q_query = "none"
    /\ q_result = {}
    /\ q_err = "none"

NeighborhoodAtRest ==
    /\ graph = {}
    /\ weights = [table |-> {}, default |-> 1]
    /\ n_origin = 1
    /\ n_distance = 0
    /\ n_pc = "input"
    /\ n_vertices = {}
    /\ n_edges = {}
    /\ n_stack = <<>>
    /\ n_err = "none"

\* No ensemble has been built yet.
NoEnsemble ==
    [kind |-> "none", point_map |-> <<>>, ncols |-> 0, inclusion |-> <<>>,
     observations |-> <<>>, accuracy_smoothing |-> 0, accuracies |-> <<>>,
     fpr |-> <<>>, w_c |-> <<>>]

\* No Motif object.
NoMotif == [oid |-> 0, m |-> [selector |-> 0, vertices |-> <<>>, edges |-> <<>>]]

NoCall == [op |-> "none", motif |-> NoMotif, document |-> "", pool |-> {}, result |-> <<>>]

EnsembleAtRest ==
    /\ img_motifs = <<>>
    /\ img_rows = <<>>
    /\ ens = NoEnsemble
    /\ e_call = NoCall
    /\ e_err = "none"

\* statistics has returned nothing yet.
NoStatistics ==
    [err |-> "none", precision |-> [n |-> 0, d |-> 1], recall |-> [n |-> 0, d |-> 1],
     f_beta |-> [n |-> 0, d |-> 1]]

StatisticsAtRest ==
    /\ s_prediction = {}
    /\ s_truth = {}
    /\ s_beta = 1
    /\ s_pc = "input"
    /\ s_result = NoStatistics

\* No active-learning loop runs.
LoopAtRest ==
    /\ l_impl = "cli"
    /\ l_n = 0
    /\ l_truth = {}
    /\ l_step = 0
    /\ l_pc = "idle"
    /\ l_learnable = {}
    /\ l_learned = {}
    /\ l_trace = <<>>
    /\ l_err = "none"

\* No exception was raised.
NotRaised == [err |-> "none", at |-> "none"]

\* No command runs.
CommandAtRest ==
    /\ c_cmd = "none"
    /\ c_docs = <<>>
    /\ c_i = 0
    /\ c_pc = "idle"
    /\ c_bound = {}
    /\ c_raised = NotRaised
    /\ c_evaluated = {}
    /\ c_written = FALSE
    /\ c_out = <<>>

----------------------------------------------------------------------------
(* Bounds of the motif-compiler inputs *)

MaxStoreEdges == 2

StoreVertexIds == {1, 2}
LocalIds == {1, 2}
Labels == {"nsubj", "dobj"}
MotifLabels == {"nsubj"}
PredPos == [key |-> "pos", value |-> "NOUN"]
PredLemma == [key |-> "lemma", value |-> "cat"]
Preds == {PredPos, PredLemma}

\* Filter(json): one Predicate per key of the JSON object, in key order.
Filters == {<<>>, <<PredPos>>, <<PredLemma>>, <<PredPos, PredLemma>>}

AttributeRows == [kind : {"pos", "lemma"}, value : {"NOUN", "cat"}, vertex : StoreVertexIds]
EdgeRows == [kind : Labels, source : StoreVertexIds, destination : StoreVertexIds]

Stores ==
    { [vertices |-> StoreVertexIds, attributes |-> a, edges |-> e] :
        a \in SUBSET {r \in AttributeRows : [key |-> r.kind, value |-> r.value] \in Preds},
        e \in {s \in SUBSET EdgeRows : Cardinality(s) <= MaxStoreEdges} }

MotifVertexJson == [identifier : LocalIds, label : Filters]
MotifEdgeJson == [source : LocalIds, destination : LocalIds, label : MotifLabels]

\* Vertex lists with ascending, distinct identifiers.
MotifVertexLists ==
    { <<v>> : v \in MotifVertexJson } \cup
    { <<v, w>> : v \in {x \in MotifVertexJson : x.identifier = 1},
                 w \in {x \in MotifVertexJson : x.identifier = 2} }

\* Edge lists of at most one edge.
MotifEdgeLists == {<<>>} \cup {<<e>> : e \in MotifEdgeJson}

MotifJsons ==
    { [selector |-> s, structure |-> [vertices |-> vs, edges |-> es]] :
        s \in LocalIds, vs \in MotifVertexLists, es \in MotifEdgeLists }

----------------------------------------------------------------------------
(* motifs.py *)

\* to_sql: f"_{identifier}".
to_sql(identifier) == <<"_", identifier>>

\* The key and the value are written into the SQL text between double quotes.
\* SQLite reads a double-quoted token that names a column of the table as that
\* column of the row, and as a string only when it names none.  Of the column
\* names, the keys and values of the model include "kind" and "value".
Operand(row, token) ==
    IF token = "kind" THEN row.kind
    ELSE IF token = "value" THEN row.value
    ELSE token

\* Predicate.subquery: SELECT vertex FROM Attribute WHERE kind = "key" AND value = "value".
Subquery(db, pred) ==
    {a.vertex : a \in {r \in db.attributes :
                          r.kind = Operand(r, pred.key) /\ r.value = Operand(r, pred.value)}}

\* Filter.where_clause: "id in (subquery) AND ... AND TRUE", folded over the predicates.
RECURSIVE WhereClause(_, _, _, _)
WhereClause(db, predicates, i, id) ==
    IF i > Len(predicates) THEN TRUE
    ELSE (id \in Subquery(db, predicates[i])) /\ WhereClause(db, predicates, i + 1, id)

\* Vertex.select_statement: SELECT id AS _identifier FROM Vertex [WHERE where_clause].
VertexSelect(db, v) ==
    [cols |-> <<to_sql(v.identifier)>>,
     rows |-> IF v.label = <<>>
              THEN {<<id>> : id \in db.vertices}
              ELSE {<<id>> : id \in {x \in db.vertices : WhereClause(db, v.label, 1, x)}}]

\* Edge.select_statement: SELECT source AS _source, destination AS _destination
\* FROM Edge WHERE kind = label.
EdgeSelect(db, e) ==
    [cols |-> <<to_sql(e.source), to_sql(e.destination)>>,
     rows |-> {<<r.source, r.destination>> : r \in {x \in db.edges : x.kind = e.label}}]

\* How the SQL engine resolves a column name that occurs twice in the right-hand
\* table of a NATURAL JOIN (SELECT source AS _1, destination AS _1): "each" joins
\* every such column with the left column of that name, "first" joins only the
\* first column of that name (SQLite from 3.39 on).  The engine is not fixed by
\* the repository, so both outcomes are possible.
JoinModes == {"each", "first"}

\* A NATURAL JOIN B.
NaturalJoin(L, R, mode) ==
    LET common == {j \in 1..Len(R.cols) : R.cols[j] \in Range(L.cols)}
        rcol(j) == IF mode = "first" THEN FirstIdx(R.cols, R.cols[j]) ELSE j
        agree(l, r) == \A j \in common : l[FirstIdx(L.cols, R.cols[j])] = r[rcol(j)]
        keep == (1..Len(R.cols)) \ common
    IN [cols |-> L.cols \o Pick(R.cols, keep, 1),
        rows |-> {l \o Pick(r, keep, 1) : <<l, r>> \in {p \in L.rows \X R.rows : agree(p[1], p[2])}}]

RECURSIVE JoinAll(_, _, _, _)
JoinAll(acc, stmts, i, mode) ==
    IF i > Len(stmts) THEN acc
    ELSE JoinAll(NaturalJoin(acc, stmts[i], mode), stmts, i + 1, mode)

\* Motif.__init__: reads selector, vertices and edges from the JSON; nothing is checked.
MotifInit(json) ==
    [selector |-> json.selector,
     vertices |-> json.structure.vertices,
     edges |-> json.structure.edges]

\* Filter.to_json(): the dict {k : v for (k, v) in predicates}: one entry per
\* key, at the place of the key's first predicate, with the value of its last.
DictOf(entries) ==
    LET first == {i \in 1..Len(entries) : \A j \in 1..(i - 1) : entries[j].key # entries[i].key}
        last(k) == CHOOSE i \in 1..Len(entries) :
                      entries[i].key = k /\ \A j \in (i + 1)..Len(entries) : entries[j].key # k
        kept == Pick(entries, first, 1)
    IN [i \in 1..Len(kept) |-> [key |-> kept[i].key, value |-> entries[last(kept[i].key)].value]]

\* Vertex.to_json().
VertexToJson(v) == [identifier |-> v.identifier, label |-> DictOf(v.label)]

\* Edge.to_json().
EdgeToJson(e) == [source |-> e.source, destination |-> e.destination, label |-> e.label]

\* Motif.to_json().
MotifToJson(m) ==
    [selector |-> m.selector,
     structure |-> [edges |-> [i \in 1..Len(m.edges) |-> EdgeToJson(m.edges[i])],
                    vertices |-> [i \in 1..Len(m.vertices) |-> VertexToJson(m.vertices[i])]]]

\* Motif.query: SELECT DISTINCT _selector FROM (s1) NATURAL JOIN (s2) ...
\* over the select statements of self.vertices + self.edges.
Query(m) ==
    [select |-> to_sql(m.selector),
     from |-> [i \in 1..(Len(m.vertices) + Len(m.edges)) |->
                 IF i <= Len(m.vertices)
                 THEN [table |-> "Vertex", of |-> m.vertices[i]]
                 ELSE [table |-> "Edge", of |-> m.edges[i - Len(m.vertices)]]]]

StatementRows(db, stmt) ==
    IF stmt.table = "Vertex" THEN VertexSelect(db, stmt.of) ELSE EdgeSelect(db, stmt.of)

\* db.select(query): the joined relation, projected on the selected column; an
\* unknown column is an OperationalError.
Execute(db, query, mode) ==
    LET stmts == [i \in 1..Len(query.from) |-> StatementRows(db, query.from[i])]
        joined == JoinAll(stmts[1], stmts, 2, mode)
        col == FirstIdx(joined.cols, query.select)
    IN IF col = 0 THEN [err |-> "OperationalError", ids |-> {}]
       ELSE [err |-> "none", ids |-> {r[col] : r \in joined.rows}]

(* Actions of the motif compiler *)

\* The query property, read on its own.
Compile ==
    /\ q_pc = "input"
    /\ q_query' = Query(MotifInit(motif))
    /\ q_pc' = "compiled"
    /\ q_err' = "none"
    /\ UNCHANGED <<store, motif, q_result>>
    /\ UNCHANGED NotQuery

\* Motif.evaluate(db): builds the query and runs it in the connected document.
Evaluate ==
    /\ q_pc \in {"input", "compiled"}
    /\ \E mode \in JoinModes :
         LET query == Query(MotifInit(motif))
             out == Execute(store, query, mode)
         IN /\ q_query' = query
            /\ q_result' = out.ids
            /\ q_err' = out.err
    /\ q_pc' = "evaluated"
    /\ UNCHANGED <<store, motif>>
    /\ UNCHANGED NotQuery

InitQuery ==
    /\ store \in Stores
    /\ motif \in MotifJsons
    /\ q_pc = "input"
    /\ q_query = "none"
    /\ q_result = {}
    /\ q_err = "none"
    /\ NeighborhoodAtRest
    /\ EnsembleAtRest
    /\ LoopAtRest
    /\ StatisticsAtRest
    /\ CommandAtRest

NextQuery == Compile \/ Evaluate

SpecQuery == InitQuery /\ [][NextQuery]_vars

(* Motifs of a single vertex *)

\* Predicates on the lemma of a token; "kind" and "value" are words.
LemmaPreds == {[key |-> "lemma", value |-> w] : w \in {"cat", "kind", "value"}}

\* Stores without edges whose vertices carry some lemmas.
LemmaStores ==
    { [vertices |-> StoreVertexIds, attributes |-> a, edges |-> {}] :
        a \in SUBSET {[kind |-> p.key, value |-> p.value, vertex |-> v] : p \in LemmaPreds, v \in StoreVertexIds} }

\* Motifs of one vertex and no edge, the vertex being the selector, with no
\* predicate or one.
SingleVertexMotifs ==
    { [selector |-> id,
       structure |-> [vertices |-> <<[identifier |-> id, label |-> f]>>, edges |-> <<>>]] :
        id \in LocalIds, f \in {<<>>} \cup {<<p>> : p \in LemmaPreds \cup {PredPos}} }

InitSingleVertex ==
    /\ store \in LemmaStores
    /\ motif \in SingleVertexMotifs
    /\ q_pc = "input"
    /\ q_query = "none"
    /\ q_result = {}
    /\ q_err = "none"
    /\ NeighborhoodAtRest
    /\ EnsembleAtRest
    /\ LoopAtRest
    /\ StatisticsAtRest
    /\ CommandAtRest

NextSingleVertex == Compile \/ Evaluate

SpecSingleVertex == InitSingleVertex /\ [][NextSingleVertex]_vars

----------------------------------------------------------------------------
(* Claims about the motif compiler *)

MotifVertexIds(json) == {json.structure.vertices[i].identifier : i \in 1..Len(json.structure.vertices)}

WellFormed(json) ==
    /\ json.selector \in MotifVertexIds(json)
    /\ \A i \in 1..Len(json.structure.edges) :
         /\ json.structure.edges[i].source \in MotifVertexIds(json)
         /\ json.structure.edges[i].destination \in MotifVertexIds(json)

HasSelfLoop(json) ==
    \E i \in 1..Len(json.structure.edges) :
        json.structure.edges[i].source = json.structure.edges[i].destination

\* The store vertices the contract of the compiler selects: the images of the
\* selector under the mappings of local ids to store vertices that satisfy every
\* filter and every motif edge.
Matches(db, json) ==
    LET vs == json.structure.vertices
        es == json.structure.edges
        ok(f) ==
            /\ \A i \in 1..Len(vs) : \A k \in 1..Len(vs[i].label) :
                 \E a \in db.attributes :
                     /\ a.vertex = f[vs[i].identifier]
                     /\ a.kind = vs[i].label[k].key
                     /\ a.value = vs[i].label[k].value
            /\ \A i \in 1..Len(es) :
                 [kind |-> es[i].label, source |-> f[es[i].source],
                  destination |-> f[es[i].destination]] \in db.edges
    IN {f[json.selector] : f \in {g \in [MotifVertexIds(json) -> db.vertices] : ok(g)}}

\* C1: for every well-formed motif and every store, Motif.evaluate returns exactly
\* the set of store vertices some satisfying mapping sends the selector to.
C1_QueryReturnsMatches ==
    (q_pc = "evaluated" /\ WellFormed(motif)) =>
        (q_err = "none" /\ q_result = Matches(store, motif))

\* The same, for the well-formed motifs none of whose edges is a self-loop: this
\* holds of the code.
QueryReturnsMatchesNoSelfLoop ==
    (q_pc = "evaluated" /\ WellFormed(motif) /\ ~HasSelfLoop(motif)) =>
        (q_err = "none" /\ q_result = Matches(store, motif))

\* C10: a motif whose selector is not one of its vertices, or one of whose edges
\* names an undeclared local id, is rejected with an error when it is constructed
\* or compiled.
C10_IllFormedRejected ==
    (q_pc = "compiled" /\ ~WellFormed(motif)) => q_err # "none"

\* The vertices of the store that carry the attribute (k, v).
Carrying(db, k, v) == {r.vertex : r \in {a \in db.attributes : a.kind = k /\ a.value = v}}

\* The motif has a single vertex, which is its selector, and no edges.
SingleVertex(json) ==
    /\ Len(json.structure.vertices) = 1
    /\ json.structure.edges = <<>>
    /\ json.selector = json.structure.vertices[1].identifier

\* What the claim has the query of a single-vertex motif return.
SingleVertexResult ==
    LET label == motif.structure.vertices[1].label
    IN /\ q_err = "none"
       /\ label = <<>> => q_result = store.vertices
       /\ Len(label) = 1 => q_result = Carrying(store, label[1].key, label[1].value)

\* C26: for a motif with a single vertex and no edges, the query result is
\* exactly the set of all vertex ids of the store if the filter is empty, and
\* exactly the set of ids of the vertices carrying attribute (k, v) if the
\* filter is the single predicate (k, v).
C26_SingleVertexQuery ==
    (q_pc = "evaluated" /\ SingleVertex(motif)) => SingleVertexResult

\* The words that name a column of the Attribute table.
ColumnWords == {"kind", "value"}

\* What does hold of the code: the claim, for a predicate whose key and value
\* name no column.
SingleVertexQueryOfPlainWords ==
    (/\ q_pc = "evaluated"
     /\ SingleVertex(motif)
     /\ \A i \in 1..Len(motif.structure.vertices[1].label) :
           /\ motif.structure.vertices[1].label[i].key \notin ColumnWords
           /\ motif.structure.vertices[1].label[i].value \notin ColumnWords)
    => SingleVertexResult

\* The query of a motif with one predicate returned a vertex.
SingleVertexQuerySelected ==
    /\ q_pc = "evaluated"
    /\ SingleVertex(motif)
    /\ Len(motif.structure.vertices[1].label) = 1
    /\ q_result # {}
    /\ q_result # store.vertices

----------------------------------------------------------------------------
(* Bounds of the neighbourhood inputs *)

MaxGraphEdges == 3
MaxDistance == 2

GraphVertexIds == {1, 2, 3}

\* An edge label is the sequence of its ':'-separated parts: "spacy:nsubj" is
\* <<"spacy", "nsubj">>, "motel" is <<"motel">>.
Kinds == {<<"motel">>, <<"spacy", "nsubj">>}

GraphEdgeRows == [kind : Kinds, source : GraphVertexIds, destination : GraphVertexIds]

Graphs == {g \in SUBSET GraphEdgeRows : Cardinality(g) <= MaxGraphEdges}

\* settings.EDGE_WEIGHTS as shipped.
EDGE_WEIGHTS == {[key |-> <<"motel">>, weight |-> 1], [key |-> <<"spacy">>, weight |-> 1]}

\* settings.EDGE_WEIGHT_DEFAULT as shipped.
EDGE_WEIGHT_DEFAULT == 1

\* The shipped configuration and positive edits of it: a heavier prefix, and an
\* exact label overriding its prefix.
WeightConfigs ==
    { [table |-> EDGE_WEIGHTS, default |-> EDGE_WEIGHT_DEFAULT],
      [table |-> {[key |-> <<"motel">>, weight |-> 2], [key |-> <<"spacy">>, weight |-> 1]},
       default |-> EDGE_WEIGHT_DEFAULT],
      [table |-> {[key |-> <<"spacy", "nsubj">>, weight |-> 2], [key |-> <<"spacy">>, weight |-> 1]},
       default |-> EDGE_WEIGHT_DEFAULT] }

----------------------------------------------------------------------------
(* orm.py *)

HasKey(table, key) == \E r \in table : r.key = key

Lookup(table, key) == (CHOOSE r \in table : r.key = key).weight

\* Edge.weight: EDGE_WEIGHTS[kind], else EDGE_WEIGHTS[kind.split(":")[0]], else
\* EDGE_WEIGHT_DEFAULT.
Weight(cfg, kind) ==
    IF HasKey(cfg.table, kind) THEN Lookup(cfg.table, kind)
    ELSE IF HasKey(cfg.table, <<kind[1]>>) THEN Lookup(cfg.table, <<kind[1]>>)
    ELSE cfg.default

\* Vertex.neighbors(distance) were it to yield the adjacent vertices whatever
\* the weight of the edge.
NeighborsWhateverWeight(g, cfg, v, distance) ==
    {e.source : e \in {x \in g : x.destination = v}} \cup {e.destination : e \in {x \in g : x.source = v}}

\* Vertex.neighbors(distance): every incoming edge that fits the budget yields its
\* source and the neighbours of its source; every outgoing edge that fits yields
\* its destination and, as the code has it, the neighbours of edge.source again
\* (orm.py line 63), which is the vertex itself.
RECURSIVE Neighbors(_, _, _, _)
Neighbors(g, cfg, v, distance) ==
    UNION ( { {e.source} \cup Neighbors(g, cfg, e.source, distance - Weight(cfg, e.kind)) :
                e \in {x \in g : x.destination = v /\ Weight(cfg, x.kind) <= distance} }
            \cup
            { {e.destination} \cup Neighbors(g, cfg, e.source, distance - Weight(cfg, e.kind)) :
                e \in {x \in g : x.source = v /\ Weight(cfg, x.kind) <= distance} } )

\* Edge.between(*vertices).
Between(g, vertices) == {e \in g : e.source \in vertices /\ e.destination \in vertices}

\* neighborhood(origin, distance).
Neighborhood ==
    /\ n_pc = "input"
    /\ n_vertices' = Neighbors(graph, weights, n_origin, n_distance)
    /\ n_edges' = Between(graph, n_vertices')
    /\ n_pc' = "done"
    /\ UNCHANGED <<graph, weights, n_origin, n_distance, n_stack, n_err>>
    /\ UNCHANGED NotNeighborhood

InitNeighborhood ==
    /\ graph \in Graphs
    /\ weights \in WeightConfigs
    /\ n_origin \in GraphVertexIds
    /\ n_distance \in 0..MaxDistance
    /\ n_pc = "input"
    /\ n_vertices = {}
    /\ n_edges = {}
    /\ n_stack = <<>>
    /\ n_err = "none"
    /\ QueryAtRest
    /\ EnsembleAtRest
    /\ LoopAtRest
    /\ StatisticsAtRest
    /\ CommandAtRest

NextNeighborhood == Neighborhood

SpecNeighborhood == InitNeighborhood /\ [][NextNeighborhood]_vars

----------------------------------------------------------------------------
(* Claims about the neighbourhood extractor *)

\* The vertices a path from v reaches, edges taken in either direction, with
\* summed weight at most budget (v itself included, by the empty path).
RECURSIVE Reachable(_, _, _, _)
Reachable(g, cfg, v, budget) ==
    {v} \cup
    UNION { Reachable(g, cfg, IF e.source = v THEN e.destination ELSE e.source,
                      budget - Weight(cfg, e.kind)) :
              e \in {x \in g : (x.source = v \/ x.destination = v) /\ Weight(cfg, x.kind) <= budget} }

\* C2: neighborhood(origin, distance) returns the vertices reachable from origin
\* within the distance, edges taken in either direction, and the store edges
\* between the returned vertices.  (Whether the origin itself counts as reachable
\* is left open: the two vertex sets are compared apart from the origin.)
C2_NeighborhoodIsReachableSet ==
    n_pc = "done" =>
        /\ n_vertices \ {n_origin} = Reachable(graph, weights, n_origin, n_distance) \ {n_origin}
        /\ n_edges = {e \in graph : e.source \in n_vertices /\ e.destination \in n_vertices}

\* What does hold of the code: every returned vertex is reachable, and the edges
\* are those between the returned vertices.
NeighborhoodWithinReachable ==
    n_pc = "done" =>
        /\ n_vertices \subseteq Reachable(graph, weights, n_origin, n_distance)
        /\ n_edges = {e \in graph : e.source \in n_vertices /\ e.destination \in n_vertices}

\* The graph is a single edge of weight 1 joining the origin a and another
\* vertex b, in either direction, and the distance asked is 1.
SingleEdgeAtOrigin ==
    /\ Cardinality(graph) = 1
    /\ n_distance = 1
    /\ \A e \in graph :
         /\ Weight(weights, e.kind) = 1
         /\ e.source # e.destination
         /\ n_origin \in {e.source, e.destination}

\* C11: in a store of two vertices a and b joined by a single edge of weight 1
\* (in either direction), neighborhood(a, distance=1) returns the vertex set {b}
\* and an edge set containing exactly that edge.
C11_TwoVertexNeighborhood ==
    (n_pc = "done" /\ SingleEdgeAtOrigin) =>
        /\ n_vertices = UNION {{e.source, e.destination} : e \in graph} \ {n_origin}
        /\ n_edges = graph

\* What does hold of the code there: the vertex set is {b}, the edge set is empty.
TwoVertexNeighborhoodHasNoEdge ==
    (n_pc = "done" /\ SingleEdgeAtOrigin) =>
        /\ n_vertices = UNION {{e.source, e.destination} : e \in graph} \ {n_origin}
        /\ n_edges = {}

\* Every label resolves to a strictly positive weight in the configuration.
PositiveWeights(cfg) == \A kind \in Kinds : Weight(cfg, kind) > 0

\* C27: with all edge weights strictly positive, neighborhood(origin,
\* distance=0) returns an empty vertex set and an empty edge set, for every
\* origin in every store graph.
C27_DistanceZero ==
    (n_pc = "done" /\ n_distance = 0 /\ PositiveWeights(weights)) =>
        (n_vertices = {} /\ n_edges = {})

\* neighborhood returned for distance 0 and an origin with an incoming edge,
\* an outgoing edge and a self-loop.
C27_Witness ==
    /\ n_pc = "done"
    /\ n_distance = 0
    /\ PositiveWeights(weights)
    /\ \E e \in graph : e.source = n_origin /\ e.destination # n_origin
    /\ \E e \in graph : e.destination = n_origin /\ e.source # n_origin
    /\ \E e \in graph : e.source = n_origin /\ e.destination = n_origin

----------------------------------------------------------------------------
(* orm.py: Vertex.neighbors step by step *)

\* The depth of generator calls the interpreter allows before it raises
\* RecursionError, scaled down.
RecursionLimit == 4

\* Configurations in which a label resolves to a weight <= 0.
BadWeightConfigs ==
    { [table |-> {[key |-> <<"motel">>, weight |-> 0], [key |-> <<"spacy">>, weight |-> 1]},
       default |-> EDGE_WEIGHT_DEFAULT],
      [table |-> {[key |-> <<"spacy">>, weight |-> 1]}, default |-> -1] }

\* The edges of a set in the order the store iterates them.
RECURSIVE EdgeSeq(_)
EdgeSeq(S) ==
    IF S = {} THEN <<>>
    ELSE LET e == CHOOSE x \in S : TRUE IN <<e>> \o EdgeSeq(S \ {e})

\* The iterations a call v.neighbors(distance) has before it: self.incoming,
\* then self.outgoing.
Frame(g, v, distance) ==
    LET incoming == EdgeSeq({e \in g : e.destination = v})
        outgoing == EdgeSeq({e \in g : e.source = v})
    IN [vertex |-> v, distance |-> distance,
        todo |-> [i \in 1..Len(incoming) |-> [dir |-> "incoming", edge |-> incoming[i]]]
                 \o [i \in 1..Len(outgoing) |-> [dir |-> "outgoing", edge |-> outgoing[i]]]]

\* distance - edge.weight, the budget handed to the recursive call.
CalleeDistanceSame(distance, weight) == distance

CalleeDistance(distance, weight) == distance - weight

\* The innermost running call.
Top == n_stack[Len(n_stack)]

\* The rest of the stack with the innermost call moved past its current edge.
Advanced == [n_stack EXCEPT ![Len(n_stack)].todo = Tail(@)]

\* neighborhood(origin, distance) starts iterating origin.neighbors(distance).
StartTraversal ==
    /\ n_pc = "input"
    /\ n_pc' = "running"
    /\ n_stack' = <<Frame(graph, n_origin, n_distance)>>
    /\ UNCHANGED <<graph, weights, n_origin, n_distance, n_vertices, n_edges, n_err>>
    /\ UNCHANGED NotNeighborhood

\* The current edge fits the budget: its far end is yielded and
\* edge.source.neighbors(distance - edge.weight) is entered (orm.py lines 58-59
\* and 62-63); a call beyond the interpreter's depth raises RecursionError,
\* which ends neighborhood.
TraverseEdge ==
    /\ n_pc = "running"
    /\ n_stack # <<>>
    /\ Top.todo # <<>>
    /\ LET it == Head(Top.todo)
           w == Weight(weights, it.edge.kind)
       IN /\ w <= Top.distance
          /\ n_vertices' = n_vertices \cup {IF it.dir = "incoming" THEN it.edge.source ELSE it.edge.destination}
          /\ IF Len(n_stack) >= RecursionLimit
             THEN /\ n_err' = "RecursionError"
                  /\ n_pc' = "done"
                  /\ n_stack' = <<>>
             ELSE /\ n_stack' = Append(Advanced, Frame(graph, it.edge.source, CalleeDistance(Top.distance, w)))
                  /\ UNCHANGED <<n_pc, n_err>>
    /\ UNCHANGED <<graph, weights, n_origin, n_distance, n_edges>>
    /\ UNCHANGED NotNeighborhood

\* The current edge does not fit the budget: on to the next edge.
SkipEdge ==
    /\ n_pc = "running"
    /\ n_stack # <<>>
    /\ Top.todo # <<>>
    /\ Weight(weights, Head(Top.todo).edge.kind) > Top.distance
    /\ n_stack' = Advanced
    /\ UNCHANGED <<graph, weights, n_origin, n_distance, n_pc, n_vertices, n_edges, n_err>>
    /\ UNCHANGED NotNeighborhood

\* The innermost call has no edge left: its generator is exhausted.
ReturnFromCall ==
    /\ n_pc = "running"
    /\ n_stack # <<>>
    /\ Top.todo = <<>>
    /\ n_stack' = SubSeq(n_stack, 1, Len(n_stack) - 1)
    /\ UNCHANGED <<graph, weights, n_origin, n_distance, n_pc, n_vertices, n_edges, n_err>>
    /\ UNCHANGED NotNeighborhood

\* origin.neighbors is exhausted: edges = set(Edge.between(*vertices)).
FinishTraversal ==
    /\ n_pc = "running"
    /\ n_stack = <<>>
    /\ n_edges' = Between(graph, n_vertices)
    /\ n_pc' = "done"
    /\ UNCHANGED <<graph, weights, n_origin, n_distance, n_vertices, n_stack, n_err>>
    /\ UNCHANGED NotNeighborhood

InitTraversal ==
    /\ graph \in Graphs
    /\ weights \in WeightConfigs \cup BadWeightConfigs
    /\ n_origin \in GraphVertexIds
    /\ n_distance \in 0..MaxDistance
    /\ n_pc = "input"
    /\ n_vertices = {}
    /\ n_edges = {}
    /\ n_stack = <<>>
    /\ n_err = "none"
    /\ QueryAtRest
    /\ EnsembleAtRest
    /\ LoopAtRest
    /\ StatisticsAtRest
    /\ CommandAtRest

NextTraversal ==
    \/ StartTraversal
    \/ TraverseEdge
    \/ SkipEdge
    \/ ReturnFromCall
    \/ FinishTraversal

\* Nothing but the traversal runs, so a step that can be taken is taken.
SpecTraversal == InitTraversal /\ [][NextTraversal]_vars /\ WF_vars(NextTraversal)

----------------------------------------------------------------------------
(* Claims about the traversal *)

\* Every label of the store resolves to a strictly positive weight.
AllWeightsPositive == \A kind \in Kinds : Weight(weights, kind) > 0

\* A call entered by a step carries a strictly smaller budget than its caller,
\* and is entered only for an edge that fits the caller's budget.
CallsShrinkBudget ==
    (AllWeightsPositive /\ n_stack # <<>> /\ Len(n_stack') > Len(n_stack)) =>
        /\ n_stack'[Len(n_stack')].distance < Top.distance
        /\ Weight(weights, Head(Top.todo).edge.kind) <= Top.distance

\* C12: if every resolved edge weight is strictly positive, Vertex.neighbors
\* terminates on every store graph, cycles and parallel edges included: each
\* recursive call carries a strictly smaller remaining budget, and no call
\* recurses for an edge that does not fit the budget.  (Termination is by the
\* budget running out, not by the interpreter's depth limit.)
C12_TraversalTerminates ==
    /\ AllWeightsPositive ~> (n_pc = "done" /\ n_err = "none")
    /\ [][CallsShrinkBudget]_vars

\* A traversal that was completed on a graph with a cycle and parallel edges.
C12_Witness ==
    /\ n_pc = "done"
    /\ AllWeightsPositive
    /\ n_distance = MaxDistance
    /\ n_vertices # {}
    /\ \E e1, e2 \in graph : e1.source = e2.destination /\ e1.destination = e2.source /\ e1.source # e1.destination
    /\ \E e1, e2 \in graph : e1 # e2 /\ e1.source = e2.source /\ e1.destination = e2.destination

\* The step by step traversal yields what Vertex.neighbors yields.
TraversalAgrees ==
    (n_pc = "done" /\ AllWeightsPositive) =>
        /\ n_vertices = Neighbors(graph, weights, n_origin, n_distance)
        /\ n_edges = Between(graph, n_vertices)

\* C13: a weight configuration under which some edge label resolves to a
\* weight <= 0 is reported as a fatal configuration error before any traversal:
\* neighborhood never runs a traversal step with a non-positive edge weight.
C13_NonPositiveWeightRejected ==
    [][~ /\ n_pc = "running"
         /\ n_stack # <<>>
         /\ Top.todo # <<>>
         /\ Weight(weights, Head(Top.todo).edge.kind) <= 0
         /\ n_stack' # n_stack]_vars

----------------------------------------------------------------------------
(* Bounds of the sparse-image and ensemble inputs *)

MaxObservations == 2

Documents == {"doc1.db"}

\* The document the image's points come from: vertex 1 is a noun, vertex 2 the
\* noun "cat", vertex 3 a "cat" that is no noun; no edges.
DocStore(document) ==
    [vertices |-> {1, 2, 3},
     attributes |-> {[kind |-> "pos", value |-> "NOUN", vertex |-> 1],
                     [kind |-> "pos", value |-> "NOUN", vertex |-> 2],
                     [kind |-> "lemma", value |-> "cat", vertex |-> 2],
                     [kind |-> "lemma", value |-> "cat", vertex |-> 3]},
     edges |-> {}]

\* Three motifs: A selects the nouns {1, 2}, B the cats {2, 3}, C the subjects
\* of an nsubj edge (none in the document).
MotifA ==
    [selector |-> 1,
     structure |-> [vertices |-> <<[identifier |-> 1, label |-> <<PredPos>>]>>, edges |-> <<>>]]

MotifB ==
    [selector |-> 1,
     structure |-> [vertices |-> <<[identifier |-> 1, label |-> <<PredLemma>>]>>, edges |-> <<>>]]

MotifC ==
    [selector |-> 1,
     structure |-> [vertices |-> <<[identifier |-> 1, label |-> <<>>], [identifier |-> 2, label |-> <<>>]>>,
                    edges |-> <<[source |-> 1, destination |-> 2, label |-> "nsubj"]>>]]

MotifStructs == {MotifA, MotifB, MotifC}

----------------------------------------------------------------------------
(* img.py *)

\* Point(filepath, identifier); __eq__ and __hash__ are by value.
Point(filepath, identifier) == [filepath |-> filepath, identifier |-> identifier]

\* Point.to_json().
PointToJson(point) == [file |-> point.filepath, identifier |-> point.identifier]

\* Point.of_json(json_representation).
PointOfJson(json_representation) == Point(json_representation.file, json_representation.identifier)

\* A line of an image file, f"{json.dumps(entry)}\n", and json.loads(line):
\* the entries are objects with string keys, lists, strings and integers, which
\* json writes and reads back unchanged.
Line(entry) == <<entry, "\n">>

JsonLoads(line) == line[1]

\* Document.point(identifier).
DocPoint(document, identifier) == Point(document, identifier)

\* A Motif object: Motif defines neither __eq__ nor __hash__, so two objects are
\* equal (and key the same dict entry) only when they are the same object.
MotifObject(oid, json) == [oid |-> oid, m |-> MotifInit(json)]

\* The ids of a set in ascending order, as a list.
RECURSIVE SortedSeq(_)
SortedSeq(S) ==
    IF S = {} THEN <<>>
    ELSE LET least == CHOOSE x \in S : \A y \in S : x <= y
         IN <<least>> \o SortedSeq(S \ {least})

\* The parameters of Motif.evaluate besides self (motifs.py line 296).
EvaluateParameters == <<"db">>

\* The arguments SparseImage.evaluate_motifs passes to it (img.py line 149).
EvaluateArguments == <<>>

\* motif.evaluate(*arguments) in the connected document: a call with the wrong
\* number of arguments is a TypeError, before anything is evaluated.
MotifEvaluate(mobj, document, arguments, mode) ==
    IF Len(arguments) # Len(EvaluateParameters)
    THEN [err |-> "TypeError", ids |-> <<>>]
    ELSE LET out == Execute(DocStore(document), Query(mobj.m), mode)
         IN [err |-> out.err, ids |-> SortedSeq(out.ids)]

\* self.rows[motif]: rows is a defaultdict keyed by the Motif object; a missing
\* key reads as the empty list (that the read also stores the empty list under
\* the key is nowhere observable).
RowsGet(rows, mobj) == IF mobj.oid \in DOMAIN rows THEN rows[mobj.oid] ELSE <<>>

\* SparseImage.motif_domain(motif).
ImageMotifDomain(rows, mobj) == RowsGet(rows, mobj)

\* SparseImage.domain: the rows of the registered motifs, concatenated.
RECURSIVE ImageDomainFrom(_, _, _)
ImageDomainFrom(motifs, rows, i) ==
    IF i > Len(motifs) THEN <<>>
    ELSE ImageMotifDomain(rows, motifs[i]) \o ImageDomainFrom(motifs, rows, i + 1)

ImageDomain(motifs, rows) == ImageDomainFrom(motifs, rows, 1)

\* The image an image file records for a motif: the points the motif selects
\* in the document, as JSON.
FileRow(json) ==
    LET ids == SortedSeq(Execute(DocStore("doc1.db"), Query(MotifInit(json)), "each").ids)
    IN [i \in 1..Len(ids) |-> PointToJson(Point("doc1.db", ids[i]))]

\* Image files: one line {motif, image} per motif, every motif once.
ImageFiles ==
    { [i \in 1..Len(s) |-> Line([motif |-> s[i], image |-> FileRow(s[i])])] :
        s \in {t \in UNION {[1..n -> MotifStructs] : n \in 0..Cardinality(MotifStructs)} :
                 \A i, j \in 1..Len(t) : i # j => t[i] # t[j]} }

\* SparseImage.load(filepath): a new image; per entry a new Motif object is
\* registered and the points of its image are stored under that object.
LoadMotifs(file) == [i \in 1..Len(file) |-> MotifObject(i, JsonLoads(file[i]).motif)]

LoadRows(file) ==
    [i \in 1..Len(file) |->
        [k \in 1..Len(JsonLoads(file[i]).image) |-> PointOfJson(JsonLoads(file[i]).image[k])]]

\* What SparseImage.dump(filepath) writes for the registered motifs with a
\* non-empty image only.
DumpSelecting(motifs, rows) ==
    LET keep == {i \in 1..Len(motifs) : RowsGet(rows, motifs[i]) # <<>>}
        kept == Pick(motifs, keep, 1)
    IN [i \in 1..Len(kept) |->
          Line([motif |-> MotifToJson(kept[i].m),
                image |-> [k \in 1..Len(RowsGet(rows, kept[i])) |->
                             PointToJson(RowsGet(rows, kept[i])[k])]])]

\* What SparseImage.dump(filepath) writes: one line per registered motif, in
\* order, with the motif and the points of self.rows[motif] as JSON.
Dump(motifs, rows) ==
    [i \in 1..Len(motifs) |->
        Line([motif |-> MotifToJson(motifs[i].m),
              image |-> [k \in 1..Len(RowsGet(rows, motifs[i])) |->
                           PointToJson(RowsGet(rows, motifs[i])[k])]])]

\* SparseImage.register_motif(motif), with a newly constructed Motif whose
\* structure is not registered yet.
RegisterMotif(json) ==
    /\ \A i \in 1..Len(img_motifs) : img_motifs[i].m # MotifInit(json)
    /\ img_motifs' = Append(img_motifs, MotifObject(Len(img_motifs) + 1, json))
    /\ e_call' = [NoCall EXCEPT !.op = "register_motif", !.motif = MotifObject(Len(img_motifs) + 1, json)]
    /\ e_err' = "none"
    /\ UNCHANGED <<img_rows, ens>>
    /\ UNCHANGED NotEnsemble

\* SparseImage.evaluate_motifs(document): for each registered motif, in order,
\* rows[motif] += the points of motif.evaluate(); the first exception ends the
\* call (the rows extended before it stay extended).
RECURSIVE EvaluateFrom(_, _, _, _, _)
EvaluateFrom(motifs, rows, document, i, mode) ==
    IF i > Len(motifs) THEN [err |-> "none", rows |-> rows]
    ELSE LET out == MotifEvaluate(motifs[i], document, EvaluateArguments, mode)
             values == [k \in 1..Len(out.ids) |-> DocPoint(document, out.ids[k])]
             key == motifs[i].oid
             grown == [o \in (DOMAIN rows) \cup {key} |-> IF o = key THEN RowsGet(rows, motifs[i]) \o values ELSE rows[o]]
         IN IF out.err # "none" THEN [err |-> out.err, rows |-> rows]
            ELSE EvaluateFrom(motifs, grown, document, i + 1, mode)

EvaluateMotifs(document) ==
    /\ \E mode \in JoinModes :
         LET out == EvaluateFrom(img_motifs, img_rows, document, 1, mode)
         IN /\ img_rows' = out.rows
            /\ e_err' = out.err
    /\ e_call' = [NoCall EXCEPT !.op = "evaluate_motifs", !.document = document]
    /\ UNCHANGED <<img_motifs, ens>>
    /\ UNCHANGED NotEnsemble

\* image.motif_domain(motif), for a registered Motif object or for a newly
\* constructed Motif of some structure.
MotifDomainCall(mobj) ==
    /\ e_call' = [NoCall EXCEPT !.op = "motif_domain", !.motif = mobj,
                                !.result = ImageMotifDomain(img_rows, mobj)]
    /\ e_err' = "none"
    /\ UNCHANGED <<img_motifs, img_rows, ens>>
    /\ UNCHANGED NotEnsemble

\* image.dump(filepath).
DumpCall ==
    /\ e_call' = [NoCall EXCEPT !.op = "dump", !.result = Dump(img_motifs, img_rows)]
    /\ e_err' = "none"
    /\ UNCHANGED <<img_motifs, img_rows, ens>>
    /\ UNCHANGED NotEnsemble

\* Motif(json).to_json().
MotifToJsonCall(json) ==
    /\ e_call' = [NoCall EXCEPT !.op = "to_json", !.motif = MotifObject(0, json),
                                !.result = <<MotifToJson(MotifInit(json))>>]
    /\ e_err' = "none"
    /\ UNCHANGED <<img_motifs, img_rows, ens>>
    /\ UNCHANGED NotEnsemble

\* point.to_json().
PointToJsonCall(point) ==
    /\ e_call' = [NoCall EXCEPT !.op = "point_to_json", !.pool = {point},
                                !.result = <<PointToJson(point)>>]
    /\ e_err' = "none"
    /\ UNCHANGED <<img_motifs, img_rows, ens>>
    /\ UNCHANGED NotEnsemble

----------------------------------------------------------------------------
(* ensembles.py: Ensemble, Disjunction, MajorityVote *)

\* A float that is a ratio of two small integers is kept as that ratio; a zero
\* denominator is what numpy's division by zero gives: 0/0 is nan, x/0 is inf.
Frac(n, d) == [n |-> n, d |-> d]

\* x >= y as numpy compares floats (y finite): false for nan, true for inf.
FloatGeq(x, y) == IF x.d = 0 THEN x.n > 0 ELSE x.n * y.d >= y.n * x.d

\* x == y for finite x and y.
FloatEq(x, y) == x.d # 0 /\ y.d # 0 /\ x.n * y.d = y.n * x.d

\* settings.ACCURACY_THRESHOLD = 0.7.
ACCURACY_THRESHOLD == Frac(7, 10)

\* settings.CLASSIFICATION_THRESHOLD = 0.01.
CLASSIFICATION_THRESHOLD == Frac(1, 100)

\* The accuracy_smoothing values ensembles are built with (1 is the default).
Smoothings == {1, 2}

RECURSIVE SumFrom(_, _)
SumFrom(s, i) == IF i > Len(s) THEN 0 ELSE s[i] + SumFrom(s, i + 1)

\* np.sum of a vector.
Sum(s) == SumFrom(s, 1)

\* The product of a matrix row with a vector.
Dot(row, vec) == Sum([j \in 1..Len(row) |-> row[j] * vec[j]])

\* Ensemble._to_row(points).
ToRow(point_map, points) ==
    [i \in 1..Len(point_map) |-> IF point_map[i] \in Range(points) THEN 1 ELSE 0]

\* Ensemble._to_points(row).
ToPoints(point_map, row) == Pick(point_map, {i \in 1..Len(row) : row[i]}, 1)

\* Ensemble.__init__(image): _point_map is a copy of image.domain, the inclusion
\* matrix is built once, one row per motif and then transposed.  _motif_map is
\* image.motifs itself, the same list object (see EnsMotifMap).
EnsembleInit(motifs, rows) ==
    LET point_map == ImageDomain(motifs, rows)
        by_motif == [j \in 1..Len(motifs) |-> ToRow(point_map, ImageMotifDomain(rows, motifs[j]))]
    IN [NoEnsemble EXCEPT
          !.point_map = point_map,
          !.ncols = Len(motifs),
          !.inclusion = [i \in 1..Len(point_map) |-> [j \in 1..Len(motifs) |-> by_motif[j][i]]]]

\* self._motif_map: the image's own list of motifs, not a copy of it.
EnsMotifMap == img_motifs

\* Ensemble.motifs.
EnsMotifs == EnsMotifMap

\* Ensemble.domain.
EnsDomain == ens.point_map

\* Ensemble.motif_domain(motif): read from the image the ensemble keeps.
EnsMotifDomain(mobj) == ImageMotifDomain(img_rows, mobj)

\* Disjunction.__init__(image, accuracy_smoothing).
DisjunctionInit(kind, motifs, rows, accuracy_smoothing) ==
    [EnsembleInit(motifs, rows) EXCEPT
       !.kind = kind,
       !.observations = <<>>,
       !.accuracy_smoothing = accuracy_smoothing,
       !.accuracies = [j \in 1..Len(motifs) |-> Frac(1, 1)]]

\* The accuracies of update were the smoothing constant left out of the ratio.
UpdatedAccuraciesUnsmoothed(motifs, rows, observations, accuracy_smoothing, point) ==
    [j \in 1..Len(motifs) |->
        LET prediction == point \in Range(ImageMotifDomain(rows, motifs[j]))
            correct == Cardinality({i \in 1..Len(observations) : observations[i].classification = prediction})
            total == Len(observations)
        IN Frac(correct, total)]

\* The accuracies Disjunction.update computes: for each motif of _motif_map the
\* prediction is taken once, for the point of this call, and compared with the
\* classification of every observation.
UpdatedAccuraciesOver(motifs, rows, observations, accuracy_smoothing, point) ==
    [j \in 1..Len(motifs) |->
        LET prediction == point \in Range(ImageMotifDomain(rows, motifs[j]))
            correct == Cardinality({i \in 1..Len(observations) : observations[i].classification = prediction})
            total == Len(observations)
        IN Frac(correct + accuracy_smoothing, total + accuracy_smoothing)]

\* The same for the ensemble of the state, whose image is the image of the state.
UpdatedAccuracies(observations, accuracy_smoothing, point) ==
    UpdatedAccuraciesOver(EnsMotifMap, img_rows, observations, accuracy_smoothing, point)

\* Disjunction._relevant_motifs().
RelevantMotifs(e) ==
    [j \in 1..Len(e.accuracies) |-> IF FloatGeq(e.accuracies[j], ACCURACY_THRESHOLD) THEN 1 ELSE 0]

\* Disjunction.size.
DisjunctionSize(e) == Sum(RelevantMotifs(e))

\* Ensemble.size.
BaseSize == Len(EnsMotifMap)

\* Disjunction.probabilities() were it the share of the relevant motifs that
\* select the point.
DisjunctionProbabilitiesAsShare(e) ==
    LET relevant == RelevantMotifs(e)
    IN IF Len(relevant) # e.ncols THEN [err |-> "ValueError", values |-> <<>>]
       ELSE [err |-> "none",
             values |-> [i \in 1..Len(e.point_map) |->
                           Frac(Dot(e.inclusion[i], relevant), Sum(relevant))]]

\* Disjunction.probabilities() were it to count every motif, relevant or not.
DisjunctionProbabilitiesOfAll(e) ==
    LET relevant == RelevantMotifs(e)
    IN IF Len(relevant) # e.ncols THEN [err |-> "ValueError", values |-> <<>>]
       ELSE [err |-> "none",
             values |-> [i \in 1..Len(e.point_map) |->
                           IF Sum(e.inclusion[i]) > 0 THEN Frac(1, 1) ELSE Frac(0, 1)]]

\* Disjunction.probabilities(): inclusion @ relevant (a ValueError when the
\* shapes differ), then 1 where the count is positive and 0 elsewhere.
DisjunctionProbabilities(e) ==
    LET relevant == RelevantMotifs(e)
    IN IF Len(relevant) # e.ncols THEN [err |-> "ValueError", values |-> <<>>]
       ELSE [err |-> "none",
             values |-> [i \in 1..Len(e.point_map) |->
                           IF Dot(e.inclusion[i], relevant) > 0 THEN Frac(1, 1) ELSE Frac(0, 1)]]

\* MajorityVote.probabilities() were it to divide by the number of relevant
\* motifs that select at least one point.
MajorityVoteProbabilitiesOverSelecting(e) ==
    LET relevant == RelevantMotifs(e)
        selecting == [j \in 1..Len(relevant) |->
                        IF relevant[j] = 1 /\ \E i \in 1..Len(e.point_map) : e.inclusion[i][j] = 1
                        THEN 1 ELSE 0]
    IN IF Len(relevant) # e.ncols THEN [err |-> "ValueError", values |-> <<>>]
       ELSE [err |-> "none",
             values |-> [i \in 1..Len(e.point_map) |->
                           Frac(Dot(e.inclusion[i], relevant), Sum(selecting))]]

\* MajorityVote.probabilities(): counts_for / self.size.
MajorityVoteProbabilities(e) ==
    LET relevant == RelevantMotifs(e)
    IN IF Len(relevant) # e.ncols THEN [err |-> "ValueError", values |-> <<>>]
       ELSE [err |-> "none",
             values |-> [i \in 1..Len(e.point_map) |->
                           Frac(Dot(e.inclusion[i], relevant), DisjunctionSize(e))]]

(* numpy float64 arithmetic, as used by WeightedVote *)

\* A float is kept to four significant decimal digits (exp is good to about
\* three): [k |-> "num"] is the number m * 10^e with m = 0 or
\* 1000 <= |m| <= 9999; nan and the infinities
\* (the sign in m) are values of their own.  The range is float64's: a
\* magnitude of 10^309 or more is inf, one below 10^-324 is 0, and exp
\* overflows above 709.7 and underflows below -745.1.  Signed zeros are not
\* told apart.
NaN == [k |-> "nan", m |-> 0, e |-> 0]

Inf == [k |-> "inf", m |-> 1, e |-> 0]

Zero == [k |-> "num", m |-> 0, e |-> 0]

Abs(x) == IF x < 0 THEN -x ELSE x

Sign(x) == IF x < 0 THEN -1 ELSE 1

RECURSIVE Pow10(_)
Pow10(n) == IF n = 0 THEN 1 ELSE 10 * Pow10(n - 1)

\* The float nearest (towards zero) to m * 10^e.
RECURSIVE Norm(_, _)
Norm(m, e) ==
    IF m = 0 THEN Zero
    ELSE IF Abs(m) >= 10000 THEN Norm(Sign(m) * (Abs(m) \div 10), e + 1)
    ELSE IF Abs(m) < 1000 THEN Norm(m * 10, e - 1)
    ELSE IF e + 3 > 308 THEN [k |-> "inf", m |-> Sign(m), e |-> 0]
    ELSE IF e + 3 < -324 THEN Zero
    ELSE [k |-> "num", m |-> m, e |-> e]

\* float(n) of an integer n.
FromInt(n) == Norm(n, 0)

\* -a.
Neg(a) == [a EXCEPT !.m = -a.m]

\* a + b.
Add(a, b) ==
    IF a.k = "nan" \/ b.k = "nan" THEN NaN
    ELSE IF a.k = "inf" THEN (IF b.k = "inf" /\ b.m # a.m THEN NaN ELSE a)
    ELSE IF b.k = "inf" THEN b
    ELSE IF a.m = 0 THEN b
    ELSE IF b.m = 0 THEN a
    ELSE LET hi == IF a.e >= b.e THEN a ELSE b
             lo == IF a.e >= b.e THEN b ELSE a
             d == hi.e - lo.e
         IN IF d > 4 THEN hi ELSE Norm(hi.m * Pow10(d) + lo.m, lo.e)

\* a * b.
Mul(a, b) ==
    IF a.k = "nan" \/ b.k = "nan" THEN NaN
    ELSE IF a.k = "inf" \/ b.k = "inf"
         THEN (IF a.m = 0 \/ b.m = 0 THEN NaN ELSE [k |-> "inf", m |-> Sign(a.m) * Sign(b.m), e |-> 0])
    ELSE Norm(a.m * b.m, a.e + b.e)

\* a / b, numpy's: a division by zero is no exception but nan (0/0) or inf.
Div(a, b) ==
    IF a.k = "nan" \/ b.k = "nan" THEN NaN
    ELSE IF a.k = "inf"
         THEN (IF b.k = "inf" THEN NaN ELSE [k |-> "inf", m |-> a.m * Sign(b.m), e |-> 0])
    ELSE IF b.k = "inf" THEN Zero
    ELSE IF b.m = 0 THEN (IF a.m = 0 THEN NaN ELSE [k |-> "inf", m |-> Sign(a.m), e |-> 0])
    ELSE Norm(Sign(a.m) * Sign(b.m) * ((Abs(a.m) * 10000) \div Abs(b.m)), a.e - b.e - 4)

\* a < b; every comparison with nan is false.
Lt(a, b) ==
    /\ a.k # "nan"
    /\ b.k # "nan"
    /\ a # b
    /\ Add(a, Neg(b)).m < 0

\* a <= b.
Leq(a, b) == a.k # "nan" /\ b.k # "nan" /\ ~Lt(b, a)

\* A finite float in thousandths, for |x| < 1000.
ToMilli(x) ==
    IF x.e + 3 >= 0 THEN x.m * Pow10(x.e + 3)
    ELSE IF x.e + 3 < -4 THEN 0
    ELSE Sign(x.m) * (Abs(x.m) \div Pow10(-(x.e + 3)))

\* The terms u^i/i!, u^(i+1)/(i+1)!, ... summed, in thousandths; term is u^(i-1)/(i-1)!.
RECURSIVE ExpSeries(_, _, _)
ExpSeries(u, term, i) ==
    LET next == (term * u) \div (1000 * i)
    IN IF next = 0 THEN 0 ELSE next + ExpSeries(u, next, i + 1)

\* np.exp(x): e^x = 10^d * 10^g with d + g = x * log10(e), d an integer and
\* 0 <= g < 1; 10^g = e^(g * ln 10) by its series.
Exp(x) ==
    IF x.k = "nan" THEN NaN
    ELSE IF x.k = "inf" THEN (IF x.m > 0 THEN Inf ELSE Zero)
    ELSE IF Lt(Norm(7097, -1), x) THEN Inf
    ELSE IF Lt(x, Norm(-7451, -1)) THEN Zero
    ELSE LET t == ToMilli(x)
             q == t \div 1000
             r == t % 1000
             y == q * 434 + (q * 294) \div 1000 + (r * 434) \div 1000
             d == y \div 1000
             g == y % 1000
             u == (g * 2303) \div 1000
         IN Norm(1000 + ExpSeries(u, 1000, 1), d - 3)

\* np.max of a non-empty vector: nan if an entry is nan.
RECURSIVE NpMaxFrom(_, _, _)
NpMaxFrom(s, i, best) ==
    IF i > Len(s) THEN best
    ELSE IF s[i].k = "nan" \/ best.k = "nan" THEN NaN
    ELSE NpMaxFrom(s, i + 1, IF Lt(best, s[i]) THEN s[i] ELSE best)

NpMax(s) == NpMaxFrom(s, 2, s[1])

\* Python's max(a, b): b when b > a, else a.
PyMax(a, b) == IF Lt(a, b) THEN b ELSE a

\* The sum of a vector of floats, left to right.
RECURSIVE FSumFrom(_, _, _)
FSumFrom(s, i, acc) == IF i > Len(s) THEN acc ELSE FSumFrom(s, i + 1, Add(acc, s[i]))

FSum(s) == FSumFrom(s, 1, Zero)

(* ensembles.py: WeightedVote *)

\* settings.LEARNING_RATE.
LEARNING_RATE == 10

\* WeightedVote.__init__(image, approximate_fpr).
WeightedVoteInit(motifs, rows, approximate_fpr) ==
    LET accuracy == [j \in 1..Len(motifs) |->
                       Div(FromInt(Len(ImageMotifDomain(rows, motifs[j]))), FromInt(Len(motifs)))]
    IN [EnsembleInit(motifs, rows) EXCEPT
          !.kind = "WeightedVote",
          !.fpr = [j \in 1..Len(motifs) |->
                     IF approximate_fpr THEN Div(Add(accuracy[j], FromInt(-1)), FromInt(2))
                     ELSE Mul(FromInt(1), Norm(1, -1))],
          !.w_c = accuracy]

\* An optional argument: left at its default None, or given a value.
None == [none |-> TRUE, value |-> 0]

Given(value) == [none |-> FALSE, value |-> value]

RECURSIVE IntPow(_, _)
IntPow(b, n) == IF n = 0 THEN 1 ELSE b * IntPow(b, n - 1)

\* The fpr WeightedVote.update would leave were every motif taken to select
\* the observed point.
UpdatedFprOfAll(e, point, classification, learning_rate, decay, step, scale) ==
    LET lr == IF learning_rate = None THEN LEARNING_RATE ELSE learning_rate.value
        m_i == [j \in 1..e.ncols |-> IF classification THEN (-1) * scale ELSE 1]
    IN [j \in 1..Len(e.fpr) |->
          Mul(e.fpr[j], Exp(FromInt((-1) * lr * m_i[j] * IntPow(decay, step))))]

\* The fpr WeightedVote.update would leave were a learning rate of 0 replaced
\* by the default as None is (learning_rate = learning_rate or settings.LEARNING_RATE).
UpdatedFprDefaulting(e, point, classification, learning_rate, decay, step, scale) ==
    LET lr == IF learning_rate = None \/ learning_rate.value = 0 THEN LEARNING_RATE ELSE learning_rate.value
        v_i == FirstIdx(e.point_map, point)
        m_i == [j \in 1..e.ncols |->
                  IF classification THEN e.inclusion[v_i][j] * (-1) * scale ELSE e.inclusion[v_i][j]]
    IN [j \in 1..Len(e.fpr) |->
          Mul(e.fpr[j], Exp(FromInt((-1) * lr * m_i[j] * IntPow(decay, step))))]

\* The fpr WeightedVote.update leaves: learning_rate None is replaced by
\* settings.LEARNING_RATE (any other value, 0 included, is used as given), and
\* each motif's fpr is multiplied by exp(-learning_rate * m_i * decay ** step).
UpdatedFpr(e, point, classification, learning_rate, decay, step, scale) ==
    LET lr == IF learning_rate = None THEN LEARNING_RATE ELSE learning_rate.value
        v_i == FirstIdx(e.point_map, point)
        m_i == [j \in 1..e.ncols |->
                  IF classification THEN e.inclusion[v_i][j] * (-1) * scale ELSE e.inclusion[v_i][j]]
    IN [j \in 1..Len(e.fpr) |->
          Mul(e.fpr[j], Exp(FromInt((-1) * lr * m_i[j] * IntPow(decay, step))))]

\* w_i = self._w_c - 2 * self._fpr.
WeightedVoteW(e) == <<>> \o [j \in 1..Len(e.w_c) |-> Add(e.w_c[j], Neg(Mul(FromInt(2), e.fpr[j])))]

\* s_plus = self._inclusion @ w_i.
SPlus(e, w_i) ==
    <<>> \o [i \in 1..Len(e.point_map) |->
               FSum([j \in 1..e.ncols |-> Mul(FromInt(e.inclusion[i][j]), w_i[j])])]

\* s_minus = (1 - self._inclusion) @ w_i.
SMinus(e, w_i) ==
    <<>> \o [i \in 1..Len(e.point_map) |->
               FSum([j \in 1..e.ncols |-> Mul(FromInt(1 - e.inclusion[i][j]), w_i[j])])]

\* denom = max(np.max(s_plus), np.max(s_minus)), for a non-empty domain.
Denom(s_plus, s_minus) == PyMax(NpMax(s_plus), NpMax(s_minus))

\* plus = np.exp(s_plus / denom), and minus = np.exp(s_minus / denom).
ExpOver(s, denom) == <<>> \o [i \in 1..Len(s) |-> Exp(Div(s[i], denom))]

\* The plus and minus of WeightedVote.probabilities(), each line of the method
\* computed once.
PlusMinus(e) ==
    LET w_i == WeightedVoteW(e)
        s_plus == SPlus(e, w_i)
        s_minus == SMinus(e, w_i)
        denom == Denom(s_plus, s_minus)
    IN [plus |-> ExpOver(s_plus, denom), minus |-> ExpOver(s_minus, denom)]

\* WeightedVote.probabilities(): np.max of an empty array is a ValueError; the
\* value returned is plus / plus + minus, that is (plus / plus) + minus.
WeightedVoteProbabilities(e) ==
    IF Len(e.point_map) = 0 THEN [err |-> "ValueError", values |-> <<>>]
    ELSE LET pm == PlusMinus(e)
         IN [err |-> "none",
             values |-> <<>> \o [i \in 1..Len(e.point_map) |->
                                   Add(Div(pm.plus[i], pm.plus[i]), pm.minus[i])]]

\* ensemble.probabilities().
Probabilities(e) ==
    IF e.kind = "Disjunction" THEN DisjunctionProbabilities(e)
    ELSE IF e.kind = "MajorityVote" THEN MajorityVoteProbabilities(e)
    ELSE IF e.kind = "WeightedVote" THEN WeightedVoteProbabilities(e)
    ELSE [err |-> "NotImplementedError", values |-> <<>>]

\* ensemble.size.
Size(e) == IF e.kind \in {"Disjunction", "MajorityVote"} THEN DisjunctionSize(e) ELSE BaseSize

\* The threshold argument of classified: left at its default None, or given.
NoThreshold == [none |-> TRUE, value |-> Frac(0, 1)]

Threshold(value) == [none |-> FALSE, value |-> value]

\* if threshold is None: threshold = settings.CLASSIFICATION_THRESHOLD.
ResolveThreshold(threshold) ==
    IF threshold.none THEN CLASSIFICATION_THRESHOLD ELSE threshold.value

\* probabilities() >= threshold, entry by entry; a comparison with nan is False.
GeqThreshold(e, value, threshold) ==
    IF e.kind = "WeightedVote"
    THEN Leq(Div(FromInt(threshold.n), FromInt(threshold.d)), value)
    ELSE FloatGeq(value, threshold)

\* self._to_points(p >= threshold) for the array p that probabilities()
\* returned: np.nditer refuses to iterate a zero-sized array (ValueError).
ClassifiedGiven(e, p, threshold) ==
    IF p.err # "none" THEN [err |-> p.err, points |-> <<>>]
    ELSE IF Len(p.values) = 0 THEN [err |-> "ValueError", points |-> <<>>]
    ELSE [err |-> "none",
          points |-> ToPoints(e.point_map,
                              [i \in 1..Len(p.values) |-> GeqThreshold(e, p.values[i], threshold)])]

\* Ensemble.classified(threshold), threshold resolved.
Classified(e, threshold) == ClassifiedGiven(e, Probabilities(e), threshold)

\* Ensemble.classify(point): point in self.classified().
ClassifyGiven(e, p, point) ==
    LET classified == ClassifiedGiven(e, p, ResolveThreshold(NoThreshold))
    IN [err |-> classified.err, value |-> classified.err = "none" /\ point \in Range(classified.points)]

(* stats.py: min_absolute_logit *)

\* Document.domain: the points of all vertices of the document.
DocPoints(document) == {DocPoint(document, v) : v \in DocStore(document).vertices}

\* The pools min_absolute_logit is tried on.
Pools == SUBSET DocPoints("doc1.db")

\* A probability as a float, whichever ensemble computed it.
ToFloat(value) ==
    IF "k" \in DOMAIN value THEN value ELSE Div(FromInt(value.n), FromInt(value.d))

\* math.fabs.
FAbs(x) == [x EXCEPT !.m = Abs(x.m)]

\* fabs(p_true - (1 - p_true)).
AbsLogit(p_true) == FAbs(Add(p_true, Neg(Add(FromInt(1), Neg(p_true)))))

\* Ensemble.probabilities_per_point(): zip(self._point_map, self.probabilities()).
ProbabilitiesPerPoint(e) ==
    LET p == Probabilities(e)
        n == IF Len(e.point_map) < Len(p.values) THEN Len(e.point_map) ELSE Len(p.values)
    IN [err |-> p.err,
        pairs |-> <<>> \o [i \in 1..n |-> [point |-> e.point_map[i], p_true |-> ToFloat(p.values[i])]]]

\* What min_absolute_logit returns when no point was accepted.
NonePoint == [none |-> TRUE, point |-> Point("", 0), logit |-> Inf]

\* The loop of min_absolute_logit over the pairs of probabilities_per_point,
\* from position i on, with the best (point_min, logit_min) so far.
RECURSIVE MinAbsoluteLogitFrom(_, _, _, _)
MinAbsoluteLogitFrom(pairs, domain, i, best) ==
    IF i > Len(pairs) THEN best
    ELSE LET abs_logit == AbsLogit(pairs[i].p_true)
         IN MinAbsoluteLogitFrom(pairs, domain, i + 1,
                IF pairs[i].point \in domain /\ Leq(abs_logit, best.logit)
                THEN [none |-> FALSE, point |-> pairs[i].point, logit |-> abs_logit]
                ELSE best)

\* min_absolute_logit(ensemble, domain), per_point being what
\* ensemble.probabilities_per_point() gives.
MinAbsoluteLogit(per_point, domain) ==
    IF per_point.err # "none" THEN [err |-> per_point.err, none |-> TRUE, point |-> NonePoint.point]
    ELSE LET best == MinAbsoluteLogitFrom(per_point.pairs, domain, 1, NonePoint)
         IN [err |-> "none", none |-> best.none, point |-> best.point]

(* Actions on the image and the ensemble *)

\* Disjunction(image, accuracy_smoothing) or MajorityVote(image, accuracy_smoothing),
\* for an image with at least one motif.
ConstructDisjunction(kind, accuracy_smoothing) ==
    /\ ens = NoEnsemble
    /\ Len(img_motifs) >= 1
    /\ ens' = DisjunctionInit(kind, img_motifs, img_rows, accuracy_smoothing)
    /\ e_call' = [NoCall EXCEPT !.op = "construct"]
    /\ e_err' = "none"
    /\ UNCHANGED <<img_motifs, img_rows>>
    /\ UNCHANGED NotEnsemble

\* Disjunction.update(point, classification), point in the ensemble's domain.
DisjunctionUpdate(point, classification) ==
    /\ ens.kind \in {"Disjunction", "MajorityVote"}
    /\ Len(ens.observations) < MaxObservations
    /\ point \in Range(ens.point_map)
    /\ LET observations == Append(ens.observations, [point |-> point, classification |-> classification])
       IN ens' = [ens EXCEPT
                    !.observations = observations,
                    !.accuracies = UpdatedAccuracies(observations, ens.accuracy_smoothing, point)]
    /\ e_call' = [NoCall EXCEPT !.op = "update", !.pool = {point},
                                !.result = [classification |-> classification]]
    /\ e_err' = "none"
    /\ UNCHANGED <<img_motifs, img_rows>>
    /\ UNCHANGED NotEnsemble

\* WeightedVote(image, approximate_fpr), for an image with at least one motif.
ConstructWeightedVote(approximate_fpr) ==
    /\ ens = NoEnsemble
    /\ Len(img_motifs) >= 1
    /\ ens' = WeightedVoteInit(img_motifs, img_rows, approximate_fpr)
    /\ e_call' = [NoCall EXCEPT !.op = "construct"]
    /\ e_err' = "none"
    /\ UNCHANGED <<img_motifs, img_rows>>
    /\ UNCHANGED NotEnsemble

\* WeightedVote.update(point, classification, learning_rate, decay, step, scale),
\* point in the ensemble's domain.  The ensemble keeps no history: the number
\* of updates is counted in observations only to bound it.
WeightedVoteUpdate(point, classification, learning_rate, decay, step, scale) ==
    /\ ens.kind = "WeightedVote"
    /\ Len(ens.observations) < MaxObservations
    /\ point \in Range(ens.point_map)
    /\ ens' = [ens EXCEPT
                 !.observations = Append(@, [point |-> point, classification |-> classification]),
                 !.fpr = UpdatedFpr(ens, point, classification, learning_rate, decay, step, scale)]
    /\ e_call' = [NoCall EXCEPT !.op = "update", !.pool = {point},
                                !.result = [classification |-> classification, learning_rate |-> learning_rate,
                                            decay |-> decay, step |-> step, scale |-> scale]]
    /\ e_err' = "none"
    /\ UNCHANGED <<img_motifs, img_rows>>
    /\ UNCHANGED NotEnsemble

\* The thresholds classified is tried with.
Thresholds ==
    {NoThreshold, Threshold(Frac(0, 1)), Threshold(Frac(1, 2)), Threshold(Frac(1, 1))}

\* ensemble.classified(threshold), for some threshold.
ClassifiedCall ==
    /\ ens.kind # "none"
    /\ \E p \in {Probabilities(ens)}, threshold \in Thresholds :
         \E out \in {ClassifiedGiven(ens, p, ResolveThreshold(threshold))} :
            /\ e_call' = [NoCall EXCEPT !.op = "classified",
                                        !.result = [threshold |-> threshold, points |-> out.points]]
            /\ e_err' = out.err
    /\ UNCHANGED <<img_motifs, img_rows, ens>>
    /\ UNCHANGED NotEnsemble

\* ensemble.classify(point), for some point of the document.
ClassifyCall ==
    /\ ens.kind # "none"
    /\ \E p \in {Probabilities(ens)}, point \in DocPoints("doc1.db") :
         \E out \in {ClassifyGiven(ens, p, point)} :
            /\ e_call' = [NoCall EXCEPT !.op = "classify", !.pool = {point}, !.result = <<out.value>>]
            /\ e_err' = out.err
    /\ UNCHANGED <<img_motifs, img_rows, ens>>
    /\ UNCHANGED NotEnsemble

\* ensemble.probabilities() were WeightedVote to compute w_i in place
\* (self._w_c -= 2 * self._fpr).
ProbabilitiesCallInPlace ==
    /\ ens.kind # "none"
    /\ \E p \in {Probabilities(ens)} :
         /\ e_call' = [NoCall EXCEPT !.op = "probabilities", !.result = p.values]
         /\ e_err' = p.err
    /\ ens' = IF ens.kind = "WeightedVote" THEN [ens EXCEPT !.w_c = WeightedVoteW(ens)] ELSE ens
    /\ UNCHANGED <<img_motifs, img_rows>>
    /\ UNCHANGED NotEnsemble

\* ensemble.probabilities().
ProbabilitiesCall ==
    /\ ens.kind # "none"
    /\ \E p \in {Probabilities(ens)} :
         /\ e_call' = [NoCall EXCEPT !.op = "probabilities", !.result = p.values]
         /\ e_err' = p.err
    /\ UNCHANGED <<img_motifs, img_rows, ens>>
    /\ UNCHANGED NotEnsemble

\* ensemble.probabilities_per_point(), the pairs listed.
ProbabilitiesPerPointCall ==
    /\ ens.kind # "none"
    /\ \E per_point \in {ProbabilitiesPerPoint(ens)} :
         /\ e_call' = [NoCall EXCEPT !.op = "probabilities_per_point", !.result = per_point.pairs]
         /\ e_err' = per_point.err
    /\ UNCHANGED <<img_motifs, img_rows, ens>>
    /\ UNCHANGED NotEnsemble

\* ensemble.size.
SizeCall ==
    /\ ens.kind # "none"
    /\ e_call' = [NoCall EXCEPT !.op = "size", !.result = <<Size(ens)>>]
    /\ e_err' = "none"
    /\ UNCHANGED <<img_motifs, img_rows, ens>>
    /\ UNCHANGED NotEnsemble

\* ensemble.motif_domain(motif): self._image.motif_domain(motif).
EnsMotifDomainCall(mobj) ==
    /\ ens.kind # "none"
    /\ MotifDomainCall(mobj)

\* stats.min_absolute_logit(ensemble, pool), for some pool.
MinAbsoluteLogitCall ==
    /\ ens.kind # "none"
    /\ \E per_point \in {ProbabilitiesPerPoint(ens)}, pool \in Pools :
         \E out \in {MinAbsoluteLogit(per_point, pool)} :
            /\ e_call' = [NoCall EXCEPT !.op = "min_absolute_logit", !.pool = pool,
                                        !.result = [none |-> out.none, point |-> out.point]]
            /\ e_err' = out.err
    /\ UNCHANGED <<img_motifs, img_rows, ens>>
    /\ UNCHANGED NotEnsemble

InitEnsemble ==
    /\ \E file \in ImageFiles :
         /\ img_motifs = LoadMotifs(file)
         /\ img_rows = LoadRows(file)
    /\ ens = NoEnsemble
    /\ e_call = [NoCall EXCEPT !.op = "load"]
    /\ e_err = "none"
    /\ QueryAtRest
    /\ NeighborhoodAtRest
    /\ LoopAtRest
    /\ StatisticsAtRest
    /\ CommandAtRest

NextEnsemble ==
    \/ \E json \in MotifStructs : RegisterMotif(json)
    \/ \E document \in Documents : EvaluateMotifs(document)
    \/ \E mobj \in Range(img_motifs) \cup {MotifObject(0, json) : json \in MotifStructs} :
         MotifDomainCall(mobj)
    \/ \E kind \in {"Disjunction", "MajorityVote"}, k \in Smoothings : ConstructDisjunction(kind, k)
    \/ \E point \in Range(ens.point_map), classification \in BOOLEAN :
         DisjunctionUpdate(point, classification)
    \/ \E approximate_fpr \in BOOLEAN : ConstructWeightedVote(approximate_fpr)
    \/ \E point \in Range(ens.point_map), classification \in BOOLEAN, learning_rate \in {None, Given(0)} :
         WeightedVoteUpdate(point, classification, learning_rate, 1, 0, 1)

SpecEnsemble == InitEnsemble /\ [][NextEnsemble]_vars

\* The ensemble as stats.py uses it: built over a loaded image, updated with
\* the arguments of the active-learning loop, and queried.
InitClassifier == InitEnsemble

NextClassifier ==
    \/ \E kind \in {"Disjunction", "MajorityVote"}, k \in Smoothings : ConstructDisjunction(kind, k)
    \/ \E point \in Range(ens.point_map), classification \in BOOLEAN :
         DisjunctionUpdate(point, classification)
    \/ \E approximate_fpr \in BOOLEAN : ConstructWeightedVote(approximate_fpr)
    \/ \E point \in Range(ens.point_map), classification \in BOOLEAN :
         WeightedVoteUpdate(point, classification, None, 1, Len(ens.observations), 1)
    \/ MinAbsoluteLogitCall
    \/ ClassifiedCall
    \/ ClassifyCall
    \/ ProbabilitiesCall
    \/ ProbabilitiesPerPointCall
    \/ SizeCall
    \/ \E mobj \in Range(img_motifs) : EnsMotifDomainCall(mobj)

SpecClassifier == InitClassifier /\ [][NextClassifier]_vars

\* The arguments WeightedVote.update is tried with besides the point and the
\* classification: learning_rate (None is the default), decay, step and scale.
LearningRates == {None, Given(0), Given(1)}

Decays == {1, 2}

UpdateSteps == {0, 2}

Scales == {1, 2}

\* A WeightedVote over a loaded image, updated with any arguments.
InitWeightedVote == InitEnsemble

NextWeightedVote ==
    \/ \E approximate_fpr \in BOOLEAN : ConstructWeightedVote(approximate_fpr)
    \/ \E point \in Range(ens.point_map), classification \in BOOLEAN, learning_rate \in LearningRates,
          decay \in Decays, step \in UpdateSteps, scale \in Scales :
         WeightedVoteUpdate(point, classification, learning_rate, decay, step, scale)

SpecWeightedVote == InitWeightedVote /\ [][NextWeightedVote]_vars

----------------------------------------------------------------------------
(* Claims about the sparse image and the Disjunction / MajorityVote ensembles *)

\* No motif was registered since the ensemble was built.
ImageUntouched == ens.kind # "none" /\ Len(img_motifs) = ens.ncols

\* c_m: the observations whose label is what motif j predicts on the
\* observation's own point.
CorrectPredictions(j) ==
    Cardinality({i \in 1..Len(ens.observations) :
        ens.observations[i].classification
            = (ens.observations[i].point \in Range(EnsMotifDomain(EnsMotifMap[j])))})

\* C3: after any sequence of Disjunction.update calls the accuracy of each motif
\* m is (c_m + k) / (n + k), with n the number of observations, k the smoothing
\* constant and c_m the number of observations whose label equals m's prediction
\* on that observation's own point.
C3_AccuracyClosedForm ==
    (ens.kind \in {"Disjunction", "MajorityVote"} /\ ImageUntouched) =>
        \A j \in 1..Len(ens.accuracies) :
            FloatEq(ens.accuracies[j],
                    Frac(CorrectPredictions(j) + ens.accuracy_smoothing,
                         Len(ens.observations) + ens.accuracy_smoothing))

\* What an ensemble exposes: size, motifs, domain, inclusion matrix and the
\* results of probabilities() and classified().
Exposed ==
    <<Size(ens), EnsMotifs, EnsDomain, ens.inclusion, Probabilities(ens),
      Classified(ens, CLASSIFICATION_THRESHOLD)>>

\* C4: once an ensemble has been constructed from an image, register_motif and
\* evaluate_motifs calls on the image change nothing the ensemble exposes.
C4_EnsembleIsolatedFromImage ==
    [][(ens.kind # "none" /\ e_call'.op \in {"register_motif", "evaluate_motifs"})
          => Exposed' = Exposed]_vars

\* C5: WeightedVote.probabilities() returns, for each domain point,
\* plus / (plus + minus), plus and minus the exponentials of the two scores over
\* denom; consequently every returned value lies in [0,1].
C5_WeightedVoteNormalised ==
    (ens.kind = "WeightedVote" /\ ImageUntouched /\ Len(ens.point_map) > 0) =>
        LET p == Probabilities(ens)
            pm == PlusMinus(ens)
            plus == pm.plus
            minus == pm.minus
        IN /\ p.err = "none"
           /\ \A i \in 1..Len(p.values) :
                /\ p.values[i] = Div(plus[i], Add(plus[i], minus[i]))
                /\ Leq(Zero, p.values[i])
                /\ Leq(p.values[i], FromInt(1))

\* C6: in a MajorityVote ensemble, after any sequence of update calls, every
\* entry of probabilities() is a number p with 0 <= p <= 1.
C6_MajorityVoteBounded ==
    (ens.kind = "MajorityVote" /\ ImageUntouched) =>
        LET p == Probabilities(ens)
        IN /\ p.err = "none"
           /\ \A i \in 1..Len(p.values) :
                /\ p.values[i].d > 0
                /\ 0 <= p.values[i].n
                /\ p.values[i].n <= p.values[i].d

\* The points p1, p2, p3 of the scenario.
P1 == Point("doc1.db", 1)

P2 == Point("doc1.db", 2)

P3 == Point("doc1.db", 3)

\* A freshly constructed ensemble over an image of three motifs, of which one
\* (A) selects {p1,p2}, one (B) selects {p2,p3} and one (C) selects nothing.
FreshOverABC ==
    /\ ens.kind \in {"Disjunction", "MajorityVote"}
    /\ ens.observations = <<>>
    /\ ImageUntouched
    /\ Len(img_motifs) = 3
    /\ \E a, b, c \in 1..3 :
         /\ {a, b, c} = 1..3
         /\ Range(EnsMotifDomain(img_motifs[a])) = {P1, P2}
         /\ Range(EnsMotifDomain(img_motifs[b])) = {P2, P3}
         /\ EnsMotifDomain(img_motifs[c]) = <<>>

\* MajorityVote.probabilities() is `for_p2` at p2 and `for_others` at p1 and p3.
MajorityVoteGives(for_p2, for_others) ==
    LET p == Probabilities(ens)
    IN /\ p.err = "none"
       /\ \A i \in 1..Len(p.values) :
            FloatEq(p.values[i], IF ens.point_map[i] = P2 THEN for_p2 ELSE for_others)

DisjunctionClassifiesAll ==
    LET c == Classified(ens, CLASSIFICATION_THRESHOLD)
    IN c.err = "none" /\ Range(c.points) = {P1, P2, P3}

\* C7 as stated: for the image where A selects {p1,p2}, B selects {p2,p3} and C
\* selects nothing, freshly constructed ensembles give: Disjunction.classified()
\* is {p1,p2,p3}; MajorityVote.probabilities() is 1.0 for p2 and 0.5 for p1, p3.
C7_ScenarioAsStated ==
    FreshOverABC =>
        /\ ens.kind = "Disjunction" => DisjunctionClassifiesAll
        /\ ens.kind = "MajorityVote" => MajorityVoteGives(Frac(1, 1), Frac(1, 2))

\* C7, amended: in that scenario Disjunction.classified() is {p1,p2,p3};
\* MajorityVote.probabilities() is 2/3 for p2 and 1/3 for p1 and p3, motif C
\* (accuracy 1) being one of the three relevant motifs.
C7_Scenario ==
    FreshOverABC =>
        /\ ens.kind = "Disjunction" => DisjunctionClassifiesAll
        /\ ens.kind = "MajorityVote" => MajorityVoteGives(Frac(2, 3), Frac(1, 3))

\* A fresh MajorityVote over A, B, C, its domain the four entries p1, p2, p2, p3.
C7_Witness ==
    /\ FreshOverABC
    /\ ens.kind = "MajorityVote"
    /\ Len(ens.point_map) = 4
    /\ Range(ens.point_map) = {P1, P2, P3}

\* The points a motif's query selects in a document.
Selected(mobj, document) ==
    LET ids == SortedSeq(Execute(DocStore(document), Query(mobj.m), "each").ids)
    IN [k \in 1..Len(ids) |-> DocPoint(document, ids[k])]

\* C8: evaluate_motifs(document) appends to each registered motif's row the
\* points (document, id) for exactly the ids the motif's query selects in the
\* document, keeping all earlier entries.
C8_EvaluateAppends ==
    [][e_call'.op = "evaluate_motifs" =>
          \A j \in 1..Len(img_motifs) :
              RowsGet(img_rows', img_motifs[j])
                  = RowsGet(img_rows, img_motifs[j]) \o Selected(img_motifs[j], e_call'.document)]_vars

\* C9: motif_domain(m2) returns the points recorded under m1 whenever m1 and m2
\* are structurally equal, even if they are different objects.
C9_StructuralKey ==
    e_call.op = "motif_domain" =>
        \A j \in 1..Len(img_motifs) :
            img_motifs[j].m = e_call.motif.m =>
                e_call.result = RowsGet(img_rows, img_motifs[j])

\* The |p - (1 - p)| of every position of the domain, p the ensemble's
\* probability there.
AbsLogits ==
    LET p == Probabilities(ens)
    IN <<>> \o [i \in 1..Len(p.values) |-> AbsLogit(ToFloat(p.values[i]))]

\* min_absolute_logit returned None for an empty pool and, for a non-empty pool
\* of domain points, a member of the pool whose |p - (1 - p)| is minimal, the
\* logits being those of AbsLogits.
ReturnedMinimum(logits) ==
    LET at(point) == logits[FirstIdx(ens.point_map, point)]
    IN /\ e_call.pool = {} => (e_err = "none" /\ e_call.result.none)
       /\ (e_call.pool # {} /\ e_call.pool \subseteq Range(ens.point_map)) =>
             /\ e_err = "none"
             /\ ~e_call.result.none
             /\ e_call.result.point \in e_call.pool
             /\ \A q \in e_call.pool : Leq(at(e_call.result.point), at(q))

\* C15: min_absolute_logit(ensemble, pool) returns None when pool is empty; for
\* a non-empty pool of domain points it returns a member of pool whose
\* |p - (1 - p)| is minimal among all pool members.
C15_MinAbsoluteLogit ==
    (e_call.op = "min_absolute_logit" /\ ImageUntouched) =>
        \A logits \in {AbsLogits} : ReturnedMinimum(logits)

\* What does hold of the code: the claim, for ensembles over a non-empty domain
\* whose probabilities are all numbers.
MinAbsoluteLogitOverNumbers ==
    (e_call.op = "min_absolute_logit" /\ ImageUntouched /\ Len(ens.point_map) > 0) =>
        \A logits \in {AbsLogits} :
            (\A i \in 1..Len(logits) : logits[i].k # "nan") => ReturnedMinimum(logits)

\* min_absolute_logit was called with a pool of two or more domain points whose
\* logits are numbers and differ, and returned one of them.
MinAbsoluteLogitChose ==
    /\ e_call.op = "min_absolute_logit"
    /\ ImageUntouched
    /\ e_err = "none"
    /\ ~e_call.result.none
    /\ e_call.pool \subseteq Range(ens.point_map)
    /\ \E logits \in {AbsLogits} :
          /\ \A i \in 1..Len(logits) : logits[i].k = "num"
          /\ \E q \in e_call.pool :
                logits[FirstIdx(ens.point_map, q)] # logits[FirstIdx(ens.point_map, e_call.result.point)]

\* The domain points whose probabilities() entry is at least threshold, p being
\* what probabilities() returned.
AtLeast(p, threshold) ==
    {ens.point_map[i] : i \in {j \in 1..Len(ens.point_map) : GeqThreshold(ens, p.values[j], threshold)}}

\* classified and classify returned what the claim has, p being what
\* probabilities() returned.
ClassifiedAsClaimed(p) ==
    /\ e_call.op = "classified" =>
          /\ e_err = "none"
          /\ Range(e_call.result.points) =
                AtLeast(p, IF e_call.result.threshold.none THEN CLASSIFICATION_THRESHOLD
                           ELSE e_call.result.threshold.value)
    /\ e_call.op = "classify" =>
          /\ e_err = "none"
          /\ \A point \in e_call.pool :
                e_call.result[1] = (point \in AtLeast(p, CLASSIFICATION_THRESHOLD))

\* C20: for every ensemble and every threshold t, classified(t) contains
\* exactly the domain points whose probabilities() entry is >= t, t being
\* CLASSIFICATION_THRESHOLD when omitted; classify(p) is true exactly when p is
\* in classified().
C20_Classified ==
    e_call.op \in {"classified", "classify"} =>
        \A p \in {Probabilities(ens)} : p.err = "none" => ClassifiedAsClaimed(p)

\* What does hold of the code: the claim, for ensembles over a non-empty domain.
ClassifiedOverNonEmptyDomain ==
    (e_call.op \in {"classified", "classify"} /\ Len(ens.point_map) > 0) =>
        \A p \in {Probabilities(ens)} : p.err = "none" => ClassifiedAsClaimed(p)

\* classified(t) returned some of the domain points and not others.
ClassifiedSomePoints ==
    /\ e_call.op = "classified"
    /\ e_err = "none"
    /\ ~e_call.result.threshold.none
    /\ Range(e_call.result.points) # {}
    /\ Range(e_call.result.points) # Range(ens.point_map)

\* The motifs of the ensemble that are relevant and select the point, as the
\* image has them.
RelevantSelecting(point) ==
    {j \in 1..Len(EnsMotifMap) :
        /\ FloatGeq(ens.accuracies[j], ACCURACY_THRESHOLD)
        /\ point \in Range(EnsMotifDomain(EnsMotifMap[j]))}

RECURSIVE DisjunctionAfter(_, _, _, _, _)
DisjunctionAfter(motifs, rows, accuracy_smoothing, observations, n) ==
    IF n = 0 THEN DisjunctionInit("Disjunction", motifs, rows, accuracy_smoothing)
    ELSE [DisjunctionAfter(motifs, rows, accuracy_smoothing, observations, n - 1) EXCEPT
            !.observations = SubSeq(observations, 1, n),
            !.accuracies = UpdatedAccuraciesOver(motifs, rows, SubSeq(observations, 1, n),
                                                 accuracy_smoothing, observations[n].point)]

\* The Disjunction over the image of the state without its last motif (and
\* its row), after the observation history of the ensemble of the state.
WithoutLastMotif ==
    DisjunctionAfter(SubSeq(img_motifs, 1, Len(img_motifs) - 1), SubSeq(img_rows, 1, Len(img_motifs) - 1),
                     ens.accuracy_smoothing, ens.observations, Len(ens.observations))

\* The ensemble of the state is the Disjunction over the image of the state
\* after its observation history.
HistoryMakesEnsemble ==
    ens.kind = "Disjunction" =>
        ens = DisjunctionAfter(img_motifs, img_rows, ens.accuracy_smoothing,
                               ens.observations, Len(ens.observations))

\* Every point of the first ensemble's domain is in the second's, with a
\* probability that is no smaller.
NoSmaller(first, p_first, second, p_second) ==
    /\ p_first.err = "none"
    /\ p_second.err = "none"
    /\ \A i \in 1..Len(first.point_map) :
          /\ first.point_map[i] \in Range(second.point_map)
          /\ \A k \in 1..Len(second.point_map) :
                second.point_map[k] = first.point_map[i] => FloatGeq(p_second.values[k], p_first.values[i])

\* C22: for two images that differ only in that the second has one more
\* registered motif (with its row), and the same observation history applied
\* to both Disjunction ensembles, the probability of every point of the first
\* image's domain is no smaller in the second ensemble than in the first.
C22_DisjunctionMonotone ==
    (ens.kind = "Disjunction" /\ Len(img_motifs) >= 2) =>
        \A first \in {WithoutLastMotif} :
            NoSmaller(first, Probabilities(first), ens, Probabilities(ens))

\* After an update, the added motif raised the probability of a point of the
\* first image's domain from 0 to 1.
C22_Witness ==
    /\ ens.kind = "Disjunction"
    /\ Len(img_motifs) >= 2
    /\ Len(ens.observations) > 0
    /\ \E first \in {WithoutLastMotif} :
          \E i \in 1..Len(first.point_map), k \in 1..Len(ens.point_map) :
             /\ ens.point_map[k] = first.point_map[i]
             /\ Probabilities(first).values[i] = Frac(0, 1)
             /\ Probabilities(ens).values[k] = Frac(1, 1)

\* The step is a call of WeightedVote.update.
WeightedVoteUpdated == ens.kind = "WeightedVote" /\ ens'.kind = "WeightedVote" /\ e_call'.op = "update"

\* C23: WeightedVote.update(point, label, learning_rate=0, ...) leaves every
\* motif's fpr unchanged, for every domain point, either label and every
\* decay, step and scale: a learning rate of 0 is used as 0.
C23_ZeroLearningRate ==
    [][(WeightedVoteUpdated /\ e_call'.result.learning_rate = Given(0)) => ens'.fpr = ens.fpr]_vars

\* update was called with learning_rate=0, a positive label and a decay, step
\* and scale other than their defaults, on an ensemble whose fpr is not 0.
C23_Witness ==
    /\ ens.kind = "WeightedVote"
    /\ e_call.op = "update"
    /\ e_call.result.learning_rate = Given(0)
    /\ e_call.result.classification
    /\ e_call.result.decay = 2
    /\ e_call.result.step = 2
    /\ e_call.result.scale = 2
    /\ \E j \in 1..Len(ens.fpr) : ens.fpr[j] # Zero

\* update with the default learning rate or with 1 does change the fpr of a
\* motif selecting the point.
UpdateChangesFpr ==
    [][(WeightedVoteUpdated /\ e_call'.result.learning_rate # Given(0)) =>
          \A point \in e_call'.pool : \A j \in 1..Len(ens.fpr) :
              (ens.inclusion[FirstIdx(ens.point_map, point)][j] = 1 /\ ens.fpr[j].k = "num" /\ ens.fpr[j] # Zero)
                  => ens'.fpr[j] # ens.fpr[j]]_vars

\* The operations of an ensemble other than its construction and update.
ReadOperations ==
    {"classify", "classified", "probabilities", "probabilities_per_point", "size",
     "motif_domain", "min_absolute_logit"}

\* The per-motif state of an ensemble: accuracies and observation history of a
\* Disjunction or MajorityVote, fpr and w_c of a WeightedVote.
PerMotifState(e) ==
    IF e.kind = "WeightedVote" THEN <<e.fpr, e.w_c>> ELSE <<e.accuracies, e.observations>>

\* C24: the per-motif state of an ensemble is changed by no operation other
\* than update: classify, classified, probabilities, probabilities_per_point,
\* size, motif_domain and min_absolute_logit leave it unchanged.
C24_OnlyUpdateChangesState ==
    [][(ens.kind # "none" /\ e_call'.op \in ReadOperations) =>
          (ens'.kind = ens.kind /\ PerMotifState(ens') = PerMotifState(ens))]_vars

\* probabilities() returned for a WeightedVote that was updated before.
C24_Witness ==
    /\ ens.kind = "WeightedVote"
    /\ Len(ens.observations) > 0
    /\ e_call.op = "probabilities"
    /\ e_err = "none"
    /\ Len(e_call.result) > 0

\* The motifs of the ensemble that do not select the point.
NotSelecting(e, point) ==
    {j \in 1..e.ncols : e.inclusion[FirstIdx(e.point_map, point)][j] = 0}

\* C28: WeightedVote.update(point, label, ...) changes only fpr: the accuracy
\* weights w_c, the inclusion matrix and the point and motif orderings are
\* unchanged by any sequence of updates, and the fpr of every motif that does
\* not select the observed point is left exactly as it was.
C28_UpdateChangesOnlyFpr ==
    [][WeightedVoteUpdated =>
          /\ ens'.w_c = ens.w_c
          /\ ens'.inclusion = ens.inclusion
          /\ ens'.ncols = ens.ncols
          /\ ens'.point_map = ens.point_map
          /\ img_motifs' = img_motifs
          /\ img_rows' = img_rows
          /\ Len(ens'.fpr) = Len(ens.fpr)
          /\ \A point \in e_call'.pool : \A j \in NotSelecting(ens, point) : ens'.fpr[j] = ens.fpr[j]]_vars

\* A second update, with a rate other than 0, of an ensemble in which a motif
\* with an fpr other than 0 does not select the observed point and another
\* motif does.
C28_Witness ==
    /\ ens.kind = "WeightedVote"
    /\ e_call.op = "update"
    /\ Len(ens.observations) = 2
    /\ e_call.result.learning_rate # Given(0)
    /\ \E point \in e_call.pool :
          /\ \E j \in NotSelecting(ens, point) : ens.fpr[j] # Zero
          /\ NotSelecting(ens, point) # 1..ens.ncols

\* The ensemble of the state is a Disjunction or a MajorityVote.
IsDisjunction(e) == e.kind \in {"Disjunction", "MajorityVote"}

\* The step is a call of Disjunction.update.
DisjunctionUpdated == IsDisjunction(ens) /\ IsDisjunction(ens') /\ e_call'.op = "update"

\* The step is the construction of a Disjunction or of a MajorityVote.
DisjunctionConstructed == IsDisjunction(ens') /\ e_call'.op = "construct"

\* One accuracy per motif of the ensemble, each in (0, 1].
AccuraciesInUnitInterval(e, motifs) ==
    /\ Len(e.accuracies) = Len(motifs)
    /\ \A j \in 1..Len(e.accuracies) :
          /\ e.accuracies[j].d > 0
          /\ 0 < e.accuracies[j].n
          /\ e.accuracies[j].n <= e.accuracies[j].d

\* C30: in a Disjunction or MajorityVote ensemble with smoothing constant
\* k >= 1, after any sequence of update calls the accuracies vector has one
\* entry per motif of the ensemble, every entry is in (0, 1], and the
\* observation history has grown by exactly the observation of each update
\* call, at its end (none is dropped or reordered).
C30_AccuraciesAndHistory ==
    [][/\ (DisjunctionConstructed /\ ens'.accuracy_smoothing >= 1) =>
            /\ AccuraciesInUnitInterval(ens', EnsMotifMap')
            /\ ens'.observations = <<>>
       /\ (DisjunctionUpdated /\ ens.accuracy_smoothing >= 1) =>
            /\ AccuraciesInUnitInterval(ens', EnsMotifMap')
            /\ ens'.accuracy_smoothing = ens.accuracy_smoothing
            /\ \A point \in e_call'.pool :
                  ens'.observations
                      = Append(ens.observations,
                               [point |-> point, classification |-> e_call'.result.classification])
       /\ (IsDisjunction(ens) /\ ~DisjunctionUpdated) => ens'.observations = ens.observations]_vars

\* A second update left an ensemble of two motifs or more with an accuracy
\* below 1 and two observations of different labels.
C30_Witness ==
    /\ IsDisjunction(ens)
    /\ e_call.op = "update"
    /\ Len(ens.observations) = 2
    /\ ens.observations[1].classification # ens.observations[2].classification
    /\ Len(ens.accuracies) >= 2
    /\ \E j \in 1..Len(ens.accuracies) : ens.accuracies[j].n < ens.accuracies[j].d

----------------------------------------------------------------------------
(* stats.py: statistics *)

\* The points statistics is tried on, and the values of beta.
StatPoints == {P1, P2, P3}

Betas == {1, 2}

\* Python's float division: a zero divisor raises ZeroDivisionError; the value
\* is kept as the exact ratio.
PyDivides(y) == y.n # 0

FracMul(x, y) == Frac(x.n * y.n, x.d * y.d)

FracAdd(x, y) == Frac(x.n * y.d + y.n * x.d, x.d * y.d)

FracDiv(x, y) == Frac(x.n * y.d, x.d * y.n)

\* recall were it smoothed the way the accuracies of a Disjunction are.
RecallSmoothed(true_positives, ground_truth) ==
    [err |-> "none", value |-> Frac(Cardinality(true_positives) + 1, Cardinality(ground_truth) + 1)]

\* recall = len(true_positives) / len(ground_truth).
Recall(true_positives, ground_truth) ==
    IF Cardinality(ground_truth) = 0 THEN [err |-> "ZeroDivisionError", value |-> Frac(0, 1)]
    ELSE [err |-> "none", value |-> Frac(Cardinality(true_positives), Cardinality(ground_truth))]

\* statistics(prediction, ground_truth, beta).
Statistics(prediction, ground_truth, beta) ==
    LET true_positives == ground_truth \cap prediction
        false_positives == prediction \ ground_truth
        precision == IF Cardinality(prediction) = 0 THEN Frac(0, 1)
                     ELSE Frac(Cardinality(true_positives),
                               Cardinality(true_positives) + Cardinality(false_positives))
        recall == Recall(true_positives, ground_truth)
        numerator == FracMul(Frac(1 + beta * beta, 1), FracMul(precision, recall.value))
        denominator == FracAdd(FracMul(Frac(beta * beta, 1), precision), recall.value)
        failed(err) == [err |-> err, precision |-> Frac(0, 1), recall |-> Frac(0, 1), f_beta |-> Frac(0, 1)]
    IN IF recall.err # "none" THEN failed(recall.err)
       ELSE IF precision.n = 0 /\ recall.value.n = 0
            THEN [err |-> "none", precision |-> precision, recall |-> recall.value, f_beta |-> Frac(0, 1)]
       ELSE IF ~PyDivides(denominator) THEN failed("ZeroDivisionError")
       ELSE [err |-> "none", precision |-> precision, recall |-> recall.value,
             f_beta |-> FracDiv(numerator, denominator)]

\* A call statistics(prediction, ground_truth, beta).
StatisticsCall ==
    /\ s_pc = "input"
    /\ s_result' = Statistics(s_prediction, s_truth, s_beta)
    /\ s_pc' = "done"
    /\ UNCHANGED <<s_prediction, s_truth, s_beta>>
    /\ UNCHANGED NotStatistics

InitStatistics ==
    /\ s_prediction \in SUBSET StatPoints
    /\ s_truth \in SUBSET StatPoints
    /\ s_beta \in Betas
    /\ s_result = NoStatistics
    /\ s_pc = "input"
    /\ QueryAtRest
    /\ NeighborhoodAtRest
    /\ EnsembleAtRest
    /\ LoopAtRest
    /\ CommandAtRest

NextStatistics == StatisticsCall

SpecStatistics == InitStatistics /\ [][NextStatistics]_vars

(* Claims about statistics *)

\* C16: for truth non-empty, statistics(predicted, truth, beta) returns, without
\* raising, precision = |predicted & truth| / |predicted| (0 when predicted is
\* empty), recall = |predicted & truth| / |truth| and
\* f_beta = (1 + beta^2) P R / (beta^2 P + R) (0 when P = R = 0); in particular
\* statistics({}, {p1}) = (0, 0, 0), statistics({p1}, {p1}) = (1, 1, 1) and
\* statistics({p1,p2}, {p1}) = (1/2, 1, 2/3).
C16_Statistics ==
    (s_pc = "done" /\ s_truth # {}) =>
        LET hits == Cardinality(s_prediction \cap s_truth)
            np == Cardinality(s_prediction)
            nt == Cardinality(s_truth)
            b2 == s_beta * s_beta
            is(x, n, d) == x.d # 0 /\ x.n * d = n * x.d
        IN /\ s_result.err = "none"
           /\ IF np = 0 THEN s_result.precision.n = 0 ELSE is(s_result.precision, hits, np)
           /\ is(s_result.recall, hits, nt)
           \* (1 + b2) (hits/np) (hits/nt) / (b2 hits/np + hits/nt) = (1 + b2) hits / (b2 nt + np)
           /\ IF hits = 0 THEN s_result.f_beta.n = 0 /\ s_result.f_beta.d # 0
              ELSE is(s_result.f_beta, (1 + b2) * hits, b2 * nt + np)
           /\ (s_beta = 1 /\ s_prediction = {} /\ s_truth = {P1}) =>
                 /\ is(s_result.precision, 0, 1) /\ is(s_result.recall, 0, 1) /\ is(s_result.f_beta, 0, 1)
           /\ (s_beta = 1 /\ s_prediction = {P1} /\ s_truth = {P1}) =>
                 /\ is(s_result.precision, 1, 1) /\ is(s_result.recall, 1, 1) /\ is(s_result.f_beta, 1, 1)
           /\ (s_beta = 1 /\ s_prediction = {P1, P2} /\ s_truth = {P1}) =>
                 /\ is(s_result.precision, 1, 2) /\ is(s_result.recall, 1, 1) /\ is(s_result.f_beta, 2, 3)

\* statistics({p1,p2}, {p1}) has returned.
C16_Witness ==
    /\ s_pc = "done"
    /\ s_prediction = {P1, P2}
    /\ s_truth = {P1}
    /\ s_beta = 1
    /\ s_result.err = "none"

----------------------------------------------------------------------------
(* The active-learning loop: evaluate_weighted_vote of cli.py and of stats.py *)

\* The largest active_learning_steps tried.
MaxSteps == 3

\* An entry of the loop's trace: the evaluation of a step, or the update made
\* on a step with the split point and its ground-truth membership.
Evaluated(step) ==
    [ev |-> "evaluate", step |-> step, point |-> NonePoint.point, classification |-> FALSE]

Updated(step, point, classification) ==
    [ev |-> "update", step |-> step, point |-> point, classification |-> classification]

\* The statements before the loop: the image was loaded, its documents are all
\* in the TEST split (filter_points keeps every point), ensemble =
\* WeightedVote(image), learnable = the image's domain, learned = set().
StartLoop(impl, active_learning_steps, ground_truth) ==
    /\ l_pc = "idle"
    /\ ens = NoEnsemble
    /\ Len(img_motifs) >= 1
    /\ ens' = WeightedVoteInit(img_motifs, img_rows, TRUE)
    /\ l_impl' = impl
    /\ l_n' = active_learning_steps
    /\ l_truth' = ground_truth
    /\ l_step' = 0
    /\ l_pc' = IF active_learning_steps = 0 THEN "done" ELSE "evaluate"
    /\ l_learnable' = Range(ImageDomain(img_motifs, img_rows))
    /\ l_learned' = {}
    /\ l_trace' = <<>>
    /\ l_err' = "none"
    /\ UNCHANGED <<img_motifs, img_rows, e_call, e_err>>
    /\ UNCHANGED NotLoop

\* What the evaluation of a step raises: ensemble.classified() first; then, in
\* cli.py, stats.statistics(predicted, ground_truth), and in stats.py the
\* arguments of result_row, among them the name threshold, which is bound
\* nowhere in that function nor in the module.
EvaluationError(impl, classified, ground_truth) ==
    IF classified.err # "none" THEN classified.err
    ELSE IF impl = "stats" THEN "NameError"
    ELSE Statistics(Range(classified.points), ground_truth, 1).err

\* The top of the loop body for step: the ensemble is classified and the
\* statistics are computed; if step is the last one the loop ends.
LoopEvaluate ==
    /\ l_pc = "evaluate"
    /\ \E classified \in {Classified(ens, CLASSIFICATION_THRESHOLD)} :
         \E err \in {EvaluationError(l_impl, classified, l_truth)} :
            IF err # "none"
            THEN /\ l_err' = err
                 /\ l_pc' = "failed"
                 /\ UNCHANGED <<l_step, l_trace>>
            ELSE /\ l_trace' = Append(l_trace, Evaluated(l_step))
                 /\ l_err' = "none"
                 /\ IF l_step # l_n - 1
                    THEN l_pc' = "split" /\ l_step' = l_step
                    ELSE l_pc' = "done" /\ l_step' = l_step + 1
    /\ UNCHANGED <<l_impl, l_n, l_truth, l_learnable, l_learned>>
    /\ UNCHANGED evars
    /\ UNCHANGED NotLoop

\* The rest of the loop body were the split added to learned and left in
\* learnable.
LoopSplitKeeping ==
    /\ l_pc = "split"
    /\ \E split \in {MinAbsoluteLogit(ProbabilitiesPerPoint(ens), l_learnable \ l_learned)} :
         IF split.err # "none"
         THEN /\ l_err' = split.err
              /\ l_pc' = "failed"
              /\ UNCHANGED <<ens, l_step, l_learnable, l_learned, l_trace>>
         ELSE IF split.none
         THEN /\ l_step' = l_step + 1
              /\ l_pc' = "evaluate"
              /\ UNCHANGED <<ens, l_learnable, l_learned, l_trace, l_err>>
         ELSE LET truth == split.point \in l_truth
              IN /\ l_learnable' = l_learnable
                 /\ l_learned' = l_learned \cup {split.point}
                 /\ ens' = [ens EXCEPT
                              !.observations = Append(@, [point |-> split.point, classification |-> truth]),
                              !.fpr = UpdatedFpr(ens, split.point, truth, None, 1, l_step, 1)]
                 /\ l_trace' = Append(l_trace, Updated(l_step, split.point, truth))
                 /\ l_step' = l_step + 1
                 /\ l_pc' = "evaluate"
                 /\ UNCHANGED l_err
    /\ UNCHANGED <<l_impl, l_n, l_truth>>
    /\ UNCHANGED <<img_motifs, img_rows, e_call, e_err>>
    /\ UNCHANGED NotLoop

\* The rest of the loop body on a step that is not the last: split =
\* min_absolute_logit(ensemble, learnable - learned); a split that is not None
\* is removed from learnable, added to learned, and the ensemble is updated
\* with it and with (split in ground_truth).
LoopSplit ==
    /\ l_pc = "split"
    /\ \E split \in {MinAbsoluteLogit(ProbabilitiesPerPoint(ens), l_learnable \ l_learned)} :
         IF split.err # "none"
         THEN /\ l_err' = split.err
              /\ l_pc' = "failed"
              /\ UNCHANGED <<ens, l_step, l_learnable, l_learned, l_trace>>
         ELSE IF split.none
         THEN /\ l_step' = l_step + 1
              /\ l_pc' = "evaluate"
              /\ UNCHANGED <<ens, l_learnable, l_learned, l_trace, l_err>>
         ELSE LET truth == split.point \in l_truth
              IN /\ l_learnable' = l_learnable \ {split.point}
                 /\ l_learned' = l_learned \cup {split.point}
                 /\ ens' = [ens EXCEPT
                              !.observations = Append(@, [point |-> split.point, classification |-> truth]),
                              !.fpr = UpdatedFpr(ens, split.point, truth, None, 1, l_step, 1)]
                 /\ l_trace' = Append(l_trace, Updated(l_step, split.point, truth))
                 /\ l_step' = l_step + 1
                 /\ l_pc' = "evaluate"
                 /\ UNCHANGED l_err
    /\ UNCHANGED <<l_impl, l_n, l_truth>>
    /\ UNCHANGED <<img_motifs, img_rows, e_call, e_err>>
    /\ UNCHANGED NotLoop

InitLoop == InitEnsemble

NextLoop ==
    \/ \E impl \in {"cli", "stats"}, active_learning_steps \in 0..MaxSteps, ground_truth \in Pools :
         StartLoop(impl, active_learning_steps, ground_truth)
    \/ LoopEvaluate
    \/ LoopSplit

SpecLoop == InitLoop /\ [][NextLoop]_vars

----------------------------------------------------------------------------
(* Claims about the active-learning loop *)

\* The steps of the trace's entries with the given ev, in order.
StepsOf(ev) ==
    LET picked == Pick(l_trace, {i \in 1..Len(l_trace) : l_trace[i].ev = ev}, 1)
    IN [i \in 1..Len(picked) |-> picked[i].step]

\* Every update of the trace comes right after the evaluation of its own step,
\* on a step that is not the last, with a point then moved to learned and with
\* that point's ground-truth membership; no point is used twice.
UpdatesFollowEvaluations ==
    /\ \A i \in 1..Len(l_trace) :
         l_trace[i].ev = "update" =>
            /\ i > 1
            /\ l_trace[i - 1] = Evaluated(l_trace[i].step)
            /\ l_trace[i].step < l_n - 1
            /\ l_trace[i].point \in l_learned
            /\ l_trace[i].point \notin l_learnable
            /\ l_trace[i].classification = (l_trace[i].point \in l_truth)
    /\ \A i, j \in 1..Len(l_trace) :
         (i # j /\ l_trace[i].ev = "update" /\ l_trace[j].ev = "update") =>
            l_trace[i].point # l_trace[j].point
    /\ l_learned = {l_trace[i].point : i \in {j \in 1..Len(l_trace) : l_trace[j].ev = "update"}}

\* The evaluations made so far are those of steps 0, 1, ... in order, one each.
EvaluationsInOrder == \A steps \in {StepsOf("evaluate")} : \A i \in 1..Len(steps) : steps[i] = i - 1

\* A loop that was started has ended, with or without an exception.
LoopEnded == l_pc \in {"done", "failed"}

\* C14: in the active-learning loop configured with n steps the ensemble is
\* evaluated exactly once per step (n times); on every step but the last a
\* point that min_absolute_logit yields is moved from learnable to learned and
\* update is called with it and its ground-truth membership, after that step's
\* evaluation and before the next; no update happens on the last step, so at
\* most n - 1 updates happen.
C14_LoopSchedule ==
    /\ EvaluationsInOrder
    /\ UpdatesFollowEvaluations
    /\ Len(StepsOf("update")) <= (IF l_n = 0 THEN 0 ELSE l_n - 1)
    /\ LoopEnded => Len(StepsOf("evaluate")) = l_n

\* What does hold of the code: the schedule of the claim, for every run that
\* ended without an exception; a run of the loop of cli.py over a non-empty
\* domain with a non-empty ground truth raises none.
LoopScheduleWithoutException ==
    /\ EvaluationsInOrder
    /\ UpdatesFollowEvaluations
    /\ Len(StepsOf("update")) <= (IF l_n = 0 THEN 0 ELSE l_n - 1)
    /\ l_pc = "done" => Len(StepsOf("evaluate")) = l_n
    /\ (l_impl = "cli" /\ l_truth # {} /\ Len(ens.point_map) > 0) => l_pc # "failed"

\* A run of the loop of cli.py with three steps ended after two updates.
LoopRanWithUpdates ==
    /\ l_pc = "done"
    /\ l_n = MaxSteps
    /\ Len(StepsOf("update")) = MaxSteps - 1

\* The updates of the trace, in order.
UpdatesMade == Pick(l_trace, {i \in 1..Len(l_trace) : l_trace[i].ev = "update"}, 1)

\* C29: throughout the active-learning loop the sets learnable and learned
\* stay disjoint and their union stays the initial pool, learned grows by at
\* most one point per step, and no point is passed to update twice (a point
\* once queried is never selected by min_absolute_logit again).
C29_LearnedAndLearnable ==
    l_pc # "idle" =>
        \A updates \in {UpdatesMade} :
            /\ l_learnable \cap l_learned = {}
            /\ l_learnable \cup l_learned = Range(ImageDomain(img_motifs, img_rows))
            /\ l_learned = {updates[i].point : i \in 1..Len(updates)}
            /\ \A i, j \in 1..Len(updates) :
                  i < j => (updates[i].step < updates[j].step /\ updates[i].point # updates[j].point)
            /\ Len(ens.observations) = Len(updates)
            /\ \A i \in 1..Len(updates) : ens.observations[i].point = updates[i].point

\* A run of the loop of cli.py ended after two updates, with points left to learn.
C29_Witness ==
    /\ l_pc = "done"
    /\ l_impl = "cli"
    /\ Cardinality(l_learned) = 2
    /\ l_learnable # {}

----------------------------------------------------------------------------
(* The image file: dump, load and the JSON forms of motifs and points *)

InitImageFile == InitEnsemble

NextImageFile ==
    \/ \E json \in MotifStructs : RegisterMotif(json)
    \/ \E document \in Documents : EvaluateMotifs(document)
    \/ DumpCall
    \/ \E json \in MotifJsons \cup MotifStructs : MotifToJsonCall(json)
    \/ \E point \in DocPoints("doc1.db") : PointToJsonCall(point)

SpecImageFile == InitImageFile /\ [][NextImageFile]_vars

\* C17: load(dump(image)) has the same sequence of motifs up to structural
\* equality and, at each motif position, the same sequence of points;
\* Motif(m.to_json()).to_json() = m.to_json() for every motif m, and
\* Point.of_json(p.to_json()) = p for every point p.
C17_RoundTrip ==
    /\ e_call.op = "dump" =>
          LET motifs == LoadMotifs(e_call.result)
              rows == LoadRows(e_call.result)
          IN /\ Len(motifs) = Len(img_motifs)
             /\ \A i \in 1..Len(img_motifs) :
                  /\ motifs[i].m = img_motifs[i].m
                  /\ RowsGet(rows, motifs[i]) = RowsGet(img_rows, img_motifs[i])
    /\ e_call.op = "to_json" =>
          MotifToJson(MotifInit(e_call.result[1])) = e_call.result[1]
    /\ e_call.op = "point_to_json" =>
          \A p \in e_call.pool : PointOfJson(e_call.result[1]) = p

\* An image of three motifs was dumped: one with points, one with none, and
\* one registered after the image was loaded.
C17_Witness ==
    /\ e_call.op = "dump"
    /\ Len(img_motifs) = 3
    /\ Len(img_rows) = 2
    /\ \E i, j \in 1..2 : img_rows[i] # <<>> /\ img_rows[j] = <<>>

----------------------------------------------------------------------------
(* cli.py evaluate_motifs and extract_neighborhoods: one Connection per document *)

\* The longest data set tried, and the documents it is made of.
MaxDocuments == 2

DatasetDocuments == {"doc1.db", "doc2.db"}

\* Data sets: lists of distinct documents.
Datasets ==
    {d \in UNION {[1..n -> DatasetDocuments] : n \in 0..MaxDocuments} :
        \A i, j \in 1..Len(d) : i # j => d[i] # d[j]}

\* The vertices of the data set's documents that the user labelled positive:
\* vertices 1 and 2 of doc1.db, vertex 2 of doc2.db.
UserLabels(document) ==
    {[kind |-> "user:label", value |-> "positive", vertex |-> v] :
        v \in IF document = "doc1.db" THEN {1, 2} ELSE {2}}

\* The store of a document of the data set.
LabelledStore(document) ==
    [DocStore(document) EXCEPT !.attributes = @ \cup UserLabels(document)]

\* orm.positive_vertices(), on the ORM object of a connected document: the
\* vertices of the attributes of kind "user:label" and value "positive".
PositiveVertices(db) ==
    {a.vertex : a \in {r \in db.attributes : r.kind = "user:label" /\ r.value = "positive"}}

\* The line written for a vertex: its neighbourhood and its id as selector.
ExtractLine(document, vertex) == Line([structure |-> document, selector |-> vertex])

\* The output file before the command: absent, or left by an earlier run.
OutputFiles == {<<>>, <<ExtractLine("doc0.db", 1)>>}

\* The motif files evaluate_motifs is tried on: no motif, or one.
MotifFiles == {<<>>} \cup {<<json>> : json \in MotifStructs}

\* The statements before the loop over the documents: evaluate_motifs creates
\* an image and registers the motifs of the motif file; both commands load the
\* data set (for extract_neighborhoods, its documents of the TRAIN split).
StartCommand(cmd, motifs, documents) ==
    /\ c_pc = "idle"
    /\ c_cmd' = cmd
    /\ c_docs' = documents
    /\ c_i' = 0
    /\ c_pc' = "loop"
    /\ img_motifs' = IF cmd = "evaluate_motifs"
                     THEN [i \in 1..Len(motifs) |-> MotifObject(i, motifs[i])]
                     ELSE img_motifs
    /\ UNCHANGED <<img_rows, ens, e_call, e_err>>
    /\ UNCHANGED <<c_bound, c_raised, c_evaluated, c_written, c_out>>
    /\ UNCHANGED NotCommand

\* The head of the for loop: the next document, or the statements after the
\* loop.  `with document.connect()` builds Connection(filepath): a new
\* Database() and ORM, not bound yet.
LoopNext ==
    /\ c_pc = "loop"
    /\ IF c_i < Len(c_docs)
       THEN c_i' = c_i + 1 /\ c_pc' = "mkdir"
       ELSE c_i' = c_i /\ c_pc' = (IF c_cmd = "evaluate_motifs" THEN "dump" ELSE "done")
    /\ UNCHANGED <<c_cmd, c_docs, c_bound, c_raised, c_evaluated, c_written, c_out>>
    /\ UNCHANGED evars
    /\ UNCHANGED NotCommand

\* An exception raised inside Connection.__enter__ leaves the with statement
\* without __exit__ being called, and nothing in the commands catches it.
EnterRaises(err, at) ==
    /\ c_raised' = [err |-> err, at |-> at]
    /\ c_pc' = "failed"

\* Connection.__enter__: Path(...).mkdir(parents=True, exist_ok=True).
Mkdir(ok) ==
    /\ c_pc = "mkdir"
    /\ IF ok THEN c_pc' = "bind" /\ UNCHANGED c_raised
       ELSE EnterRaises("OSError", "mkdir")
    /\ UNCHANGED <<c_cmd, c_docs, c_i, c_bound, c_evaluated, c_written, c_out>>
    /\ UNCHANGED evars
    /\ UNCHANGED NotCommand

\* Connection.__enter__: self._db.bind(provider='sqlite', filename=..., create_db=True);
\* a bind that returns leaves the database bound to the file.
Bind(ok) ==
    /\ c_pc = "bind"
    /\ IF ok THEN c_pc' = "generate_mapping" /\ c_bound' = c_bound \cup {c_i} /\ UNCHANGED c_raised
       ELSE EnterRaises("OperationalError", "bind") /\ UNCHANGED c_bound
    /\ UNCHANGED <<c_cmd, c_docs, c_i, c_evaluated, c_written, c_out>>
    /\ UNCHANGED evars
    /\ UNCHANGED NotCommand

\* Connection.__enter__: self._db.generate_mapping(create_tables=True), then
\* return self._orm.
GenerateMapping(ok) ==
    /\ c_pc = "generate_mapping"
    /\ IF ok THEN c_pc' = "work" /\ UNCHANGED c_raised
       ELSE EnterRaises("OperationalError", "generate_mapping")
    /\ UNCHANGED <<c_cmd, c_docs, c_i, c_bound, c_evaluated, c_written, c_out>>
    /\ UNCHANGED evars
    /\ UNCHANGED NotCommand

\* open(output, "w"): the file is created, or emptied when it exists.
OpenForWriting(file) == <<>>

\* What the body of the with statement raises in extract_neighborhoods:
\* orm.positive_vertices is looked up on the module orm, where it is not
\* defined (it is registered on the ORM object).
ExtractBody == "AttributeError"

\* The body of the with statement: the for loop of SparseImage.evaluate_motifs,
\* or the body of extract_neighborhoods, which opens the output file for
\* writing and then looks up orm.positive_vertices.  An exception leaves
\* through __exit__.
Work ==
    /\ c_pc = "work"
    /\ \E mode \in JoinModes :
         \E out \in {IF c_cmd = "evaluate_motifs"
                     THEN EvaluateFrom(img_motifs, img_rows, c_docs[c_i], 1, mode)
                     ELSE [err |-> ExtractBody, rows |-> img_rows]} :
            /\ img_rows' = out.rows
            /\ c_raised' = IF out.err = "none" THEN c_raised ELSE [err |-> out.err, at |-> "work"]
            /\ c_evaluated' = IF out.err = "none" THEN c_evaluated \cup {c_i} ELSE c_evaluated
    /\ c_out' = IF c_cmd = "extract_neighborhoods" THEN OpenForWriting(c_out) ELSE c_out
    /\ c_pc' = "exit"
    /\ UNCHANGED <<c_cmd, c_docs, c_i, c_bound, c_written>>
    /\ UNCHANGED <<img_motifs, ens, e_call, e_err>>
    /\ UNCHANGED NotCommand

\* Connection.__exit__: self._db.disconnect(); an exception of the body is
\* raised again after it and ends the command.
Exit ==
    /\ c_pc = "exit"
    /\ c_bound' = c_bound \ {c_i}
    /\ c_pc' = IF c_raised = NotRaised THEN "loop" ELSE "failed"
    /\ UNCHANGED <<c_cmd, c_docs, c_i, c_raised, c_evaluated, c_written, c_out>>
    /\ UNCHANGED evars
    /\ UNCHANGED NotCommand

\* image.dump(output), after the loop of evaluate_motifs.
DumpImage ==
    /\ c_pc = "dump"
    /\ c_written' = TRUE
    /\ c_pc' = "done"
    /\ e_call' = [NoCall EXCEPT !.op = "dump", !.result = Dump(img_motifs, img_rows)]
    /\ UNCHANGED <<c_cmd, c_docs, c_i, c_bound, c_raised, c_evaluated, c_out>>
    /\ UNCHANGED <<img_motifs, img_rows, ens, e_err>>
    /\ UNCHANGED NotCommand

\* Before a command: the output file does not exist (no line), or holds the
\* line of an earlier run.
InitCommand ==
    /\ QueryAtRest
    /\ NeighborhoodAtRest
    /\ EnsembleAtRest
    /\ LoopAtRest
    /\ StatisticsAtRest
    /\ c_cmd = "none"
    /\ c_docs = <<>>
    /\ c_i = 0
    /\ c_pc = "idle"
    /\ c_bound = {}
    /\ c_raised = NotRaised
    /\ c_evaluated = {}
    /\ c_written = FALSE
    /\ c_out \in OutputFiles

NextCommand ==
    \/ \E cmd \in {"evaluate_motifs", "extract_neighborhoods"}, motifs \in MotifFiles,
          documents \in Datasets : StartCommand(cmd, motifs, documents)
    \/ LoopNext
    \/ \E ok \in BOOLEAN : Mkdir(ok)
    \/ \E ok \in BOOLEAN : Bind(ok)
    \/ \E ok \in BOOLEAN : GenerateMapping(ok)
    \/ Work
    \/ Exit
    \/ DumpImage

SpecCommand == InitCommand /\ [][NextCommand]_vars

----------------------------------------------------------------------------
(* Claims about the connections and the loop over the documents *)

\* The command has ended, by returning or by an exception.
CommandEnded == c_pc \in {"done", "failed"}

\* At most one database is bound at any time, and none is when the
\* connection of the next document is about to be opened.
OneConnectionAtATime ==
    /\ Cardinality(c_bound) <= 1
    /\ c_pc \in {"loop", "mkdir", "bind"} => c_bound = {}

\* C18: while a list of documents is processed, at most one store connection
\* is open at any time, the connection of each document is closed before the
\* connection of the next is opened, and a connection that was opened is
\* closed on every exit path, including when connecting or the work inside
\* the connection raises.
C18_ScopedConnections ==
    /\ OneConnectionAtATime
    /\ CommandEnded => c_bound = {}

\* What does hold of the code: one connection at a time, and a database that
\* is still bound when the command has ended is one whose generate_mapping
\* raised; an exception of the work inside the connection leaves it closed.
ConnectionsClosedAfterEnter ==
    /\ OneConnectionAtATime
    /\ (CommandEnded /\ c_bound # {}) => (c_raised.at = "generate_mapping" /\ c_bound = {c_i})
    /\ (CommandEnded /\ c_raised.at = "work") => c_bound = {}

\* The places of a store error: connecting to the document.
StoreErrorPlaces == {"mkdir", "bind", "generate_mapping"}

\* C19: when evaluating one document of a data set fails with a store error,
\* the failure is confined to that document: the loop goes on to evaluate
\* every remaining document and the image is still written.
C19_FailureConfined ==
    (c_cmd = "evaluate_motifs" /\ CommandEnded /\ c_raised.at \in StoreErrorPlaces) =>
        (c_i = Len(c_docs) /\ c_written)

\* What does hold of the code: the first exception ends the command; no later
\* document is processed and the image is not written.
FirstExceptionEndsCommand ==
    /\ c_raised # NotRaised => c_pc \in {"exit", "failed"} /\ ~c_written
    /\ c_written => (c_evaluated = 1..Len(c_docs) /\ c_raised = NotRaised)
    /\ c_pc = "failed" => (c_raised # NotRaised /\ c_evaluated = 1..(c_i - 1))

\* The lines of the output file whose selector is the vertex.
LinesFor(vertex) == {k \in 1..Len(c_out) : JsonLoads(c_out[k]).selector = vertex}

\* The processed documents in which the vertex is labelled positive.
DocumentsWith(vertex) ==
    {i \in 1..Len(c_docs) : vertex \in PositiveVertices(LabelledStore(c_docs[i]))}

\* C25: after extract_neighborhoods has processed a data set, the output file
\* holds exactly one record per ground-truth-positive vertex of every
\* processed (train-split) document, with the vertex's id as selector; the
\* records of an earlier document are still there after later documents.
C25_ExtractRecords ==
    (c_cmd = "extract_neighborhoods" /\ CommandEnded) =>
        \A vertex \in DocStore("doc1.db").vertices :
            Cardinality(LinesFor(vertex)) = Cardinality(DocumentsWith(vertex))

\* What does hold of the code: the first document that is connected to empties
\* the output file and ends the command with AttributeError; no record is
\* ever written.
ExtractWritesNothing ==
    c_cmd = "extract_neighborhoods" =>
        /\ c_out \in OutputFiles
        /\ c_pc \in {"exit", "failed"} /\ c_raised.at = "work" => (c_raised.err = "AttributeError" /\ c_out = <<>>)
        /\ c_pc = "done" => c_docs = <<>>

=============================================================================
